---- MODULE Spec2Model ----
(***************************************************************************)
(* Model of the Media Notes plugin: the MediaFrame React component         *)
(* (src/src/components/media-frame.tsx) and the plugin shell that mounts   *)
(* and removes it (src/unnamed/part_001, the plugin's main.tsx).           *)
(*                                                                         *)
(* Number representations                                                  *)
(*   - caption times (offset, duration, startOffset, endOffset and the     *)
(*     playback position in ms) are exact rationals with denominator       *)
(*     TimeScale, held as integers in units of 1/TimeScale ms;             *)
(*   - pixel quantities of the scroll animator are exact rationals         *)
(*     [n |-> numerator, d |-> denominator] in lowest terms.               *)
(* IEEE-754 rounding of the JavaScript doubles is not modelled.            *)
(***************************************************************************)
EXTENDS Integers, Sequences, FiniteSets, TLC

VARIABLES
    \* ---- a pure function of the program applied to an argument
    \* (groupTranscriptIntoParagraphs, formatTimestamp, getVideoId, ...)
    segInput,               \* the argument
    segOutput,              \* NotRun, or the locals/result of the call
    \* ---- MediaFrame component state (React useState / useRef)
    transcript,             \* useState transcript
    transcriptParagraphs,   \* useState transcriptParagraphs
    transcriptLoading,      \* useState transcriptLoading
    transcriptError,        \* useState transcriptError (NoError = null)
    currentTimestamp,       \* useState currentTimestamp
    currentParagraphIndex,  \* useState currentParagraphIndex
    currentSentenceIndex,   \* useState currentSentenceIndex
    hideProgressBar,        \* useState hideProgressBar
    intervalRef,            \* useRef intervalRef (0 = null)
    \* ---- environment of the component
    mounted,                \* the React tree of the component is mounted
    attached,               \* the player container div is in the view's DOM
    fetches,                \* transcript fetches in flight (request ids)
    fetchesStarted,         \* number of fetches started so far
    pendingQueries,         \* getCurrentTime() promises in flight
    activeTimers,           \* handles of the window intervals still active
    timersCreated,          \* number of window.setInterval calls so far
    lastPlayerState,        \* the latest onStateChange notification
    pollsAfterStop,         \* polls issued by a timer after pause/end/teardown
    \* ---- transcript container (DOM)
    layout,                 \* geometry of the transcript container
    scrollTop,              \* container.scrollTop
    frameQueue,             \* pending requestAnimationFrame callbacks
    animsStarted,           \* number of scroll animations started so far
    lastEffect,             \* locals of the last run of the auto-scroll effect
    lastFrame               \* what the callbacks of the last frame did

segVars == <<segInput, segOutput>>

fetchVars == <<transcript, transcriptParagraphs, transcriptLoading,
               transcriptError, fetches, fetchesStarted>>

posVars == <<currentTimestamp, currentParagraphIndex, currentSentenceIndex,
             pendingQueries>>

timerVars == <<hideProgressBar, intervalRef, activeTimers, timersCreated,
               lastPlayerState, pollsAfterStop>>

lifeVars == <<mounted, attached>>

scrollVars == <<layout, scrollTop, frameQueue, animsStarted, lastEffect,
                lastFrame>>

vars == <<segVars, fetchVars, posVars, timerVars, lifeVars, scrollVars>>

-----------------------------------------------------------------------------
(* Generic helpers                                                         *)

Max(a, b) == IF a >= b THEN a ELSE b

Min(a, b) == IF a <= b THEN a ELSE b

Abs(a) == IF a >= 0 THEN a ELSE -a

\* (the operators of this arithmetic apply functions, so that an argument is
\* evaluated once, before the body)
GcdOf[a \in Nat, b \in Nat] == IF b = 0 THEN a ELSE GcdOf[b, a % b]

Gcd(a, b) == GcdOf[a, b]

Lcm(a, b) == (a \div Gcd(a, b)) * b

RECURSIVE LcmUpTo(_)
LcmUpTo(n) == IF n <= 1 THEN 1 ELSE Lcm(LcmUpTo(n - 1), n)

RECURSIVE SeqSum(_)
SeqSum(s) == IF s = <<>> THEN 0 ELSE Head(s) + SeqSum(Tail(s))

SeqsUpTo(S, n) == UNION {[1..k -> S] : k \in 0..n}

-----------------------------------------------------------------------------
(* Caption text: a string is a sequence of one-character strings           *)

Terminators == {".", "!", "?"}

Whitespace == {" "}

\* first index >= i of text that is not whitespace (Len + 1 if none): \s+
RECURSIVE SkipWhitespace(_, _)
SkipWhitespace(text, i) ==
    IF i <= Len(text) /\ text[i] \in Whitespace
    THEN SkipWhitespace(text, i + 1)
    ELSE i

\* text.replace(/([.!?])\s+/g, "$1|") from index i on
RECURSIVE ReplaceBoundaries(_, _)
ReplaceBoundaries(text, i) ==
    IF i > Len(text) THEN <<>>
    ELSE IF text[i] \in Terminators /\ i < Len(text) /\ text[i + 1] \in Whitespace
         THEN <<text[i], "|">> \o ReplaceBoundaries(text, SkipWhitespace(text, i + 1))
         ELSE <<text[i]>> \o ReplaceBoundaries(text, i + 1)

\* String.prototype.split("|"): the pieces between every "|" (empty ones kept)
RECURSIVE SplitOnBar(_, _)
SplitOnBar(text, piece) ==
    IF text = <<>> THEN <<piece>>
    ELSE IF Head(text) = "|"
         THEN <<piece>> \o SplitOnBar(Tail(text), <<>>)
         ELSE SplitOnBar(Tail(text), Append(piece, Head(text)))

RECURSIVE TrimEnd(_)
TrimEnd(s) ==
    IF s # <<>> /\ s[Len(s)] \in Whitespace
    THEN TrimEnd(SubSeq(s, 1, Len(s) - 1))
    ELSE s

\* String.prototype.trim
Trim(s) == TrimEnd(SubSeq(s, SkipWhitespace(s, 1), Len(s)))

\* const splitIntoSentences = (text) => replace, split, trim, filter non-empty
splitIntoSentences(text) ==
    LET pieces  == SplitOnBar(ReplaceBoundaries(text, 1), <<>>)
        trimmed == [k \in 1..Len(pieces) |-> Trim(pieces[k])]
    IN  SelectSeq(trimmed, LAMBDA s : Len(s) > 0)

-----------------------------------------------------------------------------
(* groupTranscriptIntoParagraphs                                           *)

\* sentences per paragraph: the step of the grouping loop and its slice width
ParagraphSize == 3

\* caption texts the transcript source may return: 0, 1, 2 and 3 sentences
TextPool ==
    { <<>>,
      <<"a">>,
      <<"a", ".", " ", "b", "!">>,
      <<"a", "?", " ", "b", ".", " ", "c">> }

MaxSentencesPerLine ==
    CHOOSE m \in 0..8 :
        /\ \A t \in TextPool : Len(splitIntoSentences(t)) <= m
        /\ \E t \in TextPool : Len(splitIntoSentences(t)) = m

\* denominator of every caption time: line.duration / n is exact for
\* every n <= MaxSentencesPerLine
TimeScale == LcmUpTo(MaxSentencesPerLine)

Ms(x) == x * TimeScale

\* const sentenceDuration = line.duration / lineSentences.length
SentenceDurationHalved(line, n) == line.duration \div (n + 1)

SentenceDuration(line, n) == line.duration \div n

\* the body of lineSentences.forEach for one sentence of one line
SentenceOf(line, lineIndex, lineSentences, sentenceIndex) ==
    LET sentenceDuration    == SentenceDuration(line, Len(lineSentences))
        sentenceStartOffset == line.offset + (sentenceIndex * sentenceDuration)
    IN  [text          |-> lineSentences[sentenceIndex + 1],
         startOffset   |-> sentenceStartOffset,
         endOffset     |-> sentenceStartOffset + sentenceDuration,
         originalIndex |-> lineIndex]

\* the sentences pushed for transcript line number lineIndex (0-based)
LineSentences(line, lineIndex) ==
    LET lineSentences == splitIntoSentences(line.text)
    IN  [k \in 1..Len(lineSentences) |->
            SentenceOf(line, lineIndex, lineSentences, k - 1)]

\* transcriptLines.forEach(...): all sentences, in source order
RECURSIVE SentencesFrom(_, _)
SentencesFrom(transcriptLines, k) ==
    IF k > Len(transcriptLines) THEN <<>>
    ELSE LineSentences(transcriptLines[k], k - 1)
             \o SentencesFrom(transcriptLines, k + 1)

\* sentences.slice(i, i + 3), i 0-based
SliceNarrow(sentences, i) ==
    SubSeq(sentences, i + 1, Min(i + ParagraphSize - 1, Len(sentences)))

Slice(sentences, i) ==
    SubSeq(sentences, i + 1, Min(i + ParagraphSize, Len(sentences)))

\* for (let i = 0; i < sentences.length; i += 3) paragraphs.push(...)
RECURSIVE ParagraphsFrom(_, _)
ParagraphsFrom(sentences, i) ==
    IF ~(i < Len(sentences)) THEN <<>>
    ELSE LET paragraphSentences == Slice(sentences, i)
         IN  <<[sentences   |-> paragraphSentences,
                startOffset |-> paragraphSentences[1].startOffset,
                endOffset   |-> paragraphSentences[Len(paragraphSentences)].endOffset]>>
             \o ParagraphsFrom(sentences, i + ParagraphSize)

\* the grouping loop started at i = 1
groupTranscriptIntoParagraphsFromSecond(transcriptLines) ==
    ParagraphsFrom(SentencesFrom(transcriptLines, 1), 1)

groupTranscriptIntoParagraphs(transcriptLines) ==
    ParagraphsFrom(SentencesFrom(transcriptLines, 1), 0)

-----------------------------------------------------------------------------
(* updateCurrentPosition: the two linear scans                             *)

\* currentTimeMs >= unit.startOffset && currentTimeMs <= unit.endOffset
ContainsExclusiveEnd(unit, currentTimeMs) ==
    currentTimeMs >= unit.startOffset /\ currentTimeMs < unit.endOffset

Contains(unit, currentTimeMs) ==
    currentTimeMs >= unit.startOffset /\ currentTimeMs <= unit.endOffset

\* for (let i = 0; ...) { if (...) { newIndex = i; ...; break; } }, from
\* index i (0-based) on; -1 when the loop ends without a match
RECURSIVE FirstMatchFrom(_, _, _)
FirstMatchFrom(units, currentTimeMs, i) ==
    IF ~(i < Len(units)) THEN -1
    ELSE IF Contains(units[i + 1], currentTimeMs) THEN i
         ELSE FirstMatchFrom(units, currentTimeMs, i + 1)

\* the scan that keeps overwriting: a loop without its break
RECURSIVE LastMatchFrom(_, _, _)
LastMatchFrom(units, currentTimeMs, i) ==
    IF ~(i < Len(units)) THEN -1
    ELSE LET later == LastMatchFrom(units, currentTimeMs, i + 1)
         IN  IF later # -1 THEN later
             ELSE IF Contains(units[i + 1], currentTimeMs) THEN i ELSE -1

NewParagraphIndexNoBreak(paragraphs, currentTimeMs) ==
    LastMatchFrom(paragraphs, currentTimeMs, 0)

NewParagraphIndex(paragraphs, currentTimeMs) ==
    FirstMatchFrom(paragraphs, currentTimeMs, 0)

NewSentenceIndex(paragraphs, currentTimeMs) ==
    LET p == NewParagraphIndex(paragraphs, currentTimeMs)
    IN  IF p = -1 THEN -1
        ELSE FirstMatchFrom(paragraphs[p + 1].sentences, currentTimeMs, 0)

\* const currentTimeMs = currentTimestamp * 1000: currentTimestamp is held in
\* units of 1/(1000 * TimeScale) s, currentTimeMs in units of 1/TimeScale ms
CurrentTimeMs(timestamp) == timestamp

-----------------------------------------------------------------------------
(* Exact rational arithmetic for pixel quantities                          *)

NormOf[n \in Int, d \in Nat] ==
    LET g == Gcd(Abs(n), d) IN [n |-> n \div g, d |-> d \div g]

Norm(n, d) == NormOf[n, d]

Rational == [n : Int, d : Nat]

R(k) == [n |-> k, d |-> 1]

RAddOf[a \in Rational, b \in Rational] ==
    LET l == Lcm(a.d, b.d)
    IN  Norm(a.n * (l \div a.d) + b.n * (l \div b.d), l)

RAdd(a, b) == RAddOf[a, b]

RNeg(a) == [n |-> -a.n, d |-> a.d]

RSub(a, b) == RAdd(a, RNeg(b))

RMulOf[a \in Rational, b \in Rational] == Norm(a.n * b.n, a.d * b.d)

RMul(a, b) == RMulOf[a, b]

RDivInt(a, k) == Norm(a.n, a.d * k)

RLtOf[a \in Rational, b \in Rational] == a.n * b.d < b.n * a.d

RLt(a, b) == RLtOf[a, b]

RLeOf[a \in Rational, b \in Rational] == a.n * b.d <= b.n * a.d

RLe(a, b) == RLeOf[a, b]

RMaxOf[a \in Rational, b \in Rational] == IF RLe(b, a) THEN a ELSE b

RMax(a, b) == RMaxOf[a, b]

RMinOf[a \in Rational, b \in Rational] == IF RLe(a, b) THEN a ELSE b

RMin(a, b) == RMinOf[a, b]

RAbs(a) == [n |-> Abs(a.n), d |-> a.d]

-----------------------------------------------------------------------------
(* Values of the state at and before mount                                 *)

NoError == "null"

NoEffect == [ran |-> FALSE]

NoLayout == [containerHeight |-> 0, paragraphHeight |-> 0]

\* the pure-function variables when the function is not under study
SegIdle ==
    /\ segInput = <<>>
    /\ segOutput = [stage |-> "idle"]

\* no MediaFrame has been rendered
ComponentIdle ==
    /\ transcript = <<>>
    /\ transcriptParagraphs = <<>>
    /\ transcriptLoading = FALSE
    /\ transcriptError = NoError
    /\ currentTimestamp = 0
    /\ currentParagraphIndex = -1
    /\ currentSentenceIndex = -1
    /\ hideProgressBar = TRUE
    /\ intervalRef = 0
    /\ mounted = FALSE
    /\ attached = FALSE
    /\ fetches = {}
    /\ fetchesStarted = 0
    /\ pendingQueries = 0
    /\ activeTimers = {}
    /\ timersCreated = 0
    /\ lastPlayerState = -1
    /\ pollsAfterStop = FALSE
    /\ layout = NoLayout
    /\ scrollTop = R(0)
    /\ frameQueue = <<>>
    /\ animsStarted = 0
    /\ lastEffect = NoEffect
    /\ lastFrame = <<>>

componentVars == <<fetchVars, posVars, timerVars, lifeVars, scrollVars>>

-----------------------------------------------------------------------------
(* SpecSegment: groupTranscriptIntoParagraphs and the locator's scans      *)
(* applied to every transcript of the input class                          *)

MaxLines == 3

\* caption offsets and durations, in ms
OffsetsMs == {0, 3}

DurationsMs == {0, 3}

Lines ==
    [text : TextPool, offset : {Ms(o) : o \in OffsetsMs},
     duration : {Ms(d) : d \in DurationsMs}]

\* captions come in chronological order: offsets never decrease (durations
\* are free, so consecutive lines may overlap or leave gaps)
Chronological(lines) ==
    \A k \in 1..(Len(lines) - 1) : lines[k].offset <= lines[k + 1].offset

SegInputs == {lines \in SeqsUpTo(Lines, MaxLines) : Chronological(lines)}

\* playback positions tried, on a half-millisecond grid
MaxTimeHalfMs == 13

Times == {k * (TimeScale \div 2) : k \in 0..MaxTimeHalfMs}

SegInit ==
    /\ segInput \in SegInputs
    /\ segOutput = [stage |-> "input"]
    /\ ComponentIdle

\* paragraphs = groupTranscriptIntoParagraphs(segInput)
Segment ==
    /\ segOutput.stage = "input"
    /\ segOutput' = [stage      |-> "grouped",
                     sentences  |-> SentencesFrom(segInput, 1),
                     paragraphs |-> groupTranscriptIntoParagraphs(segInput)]
    /\ UNCHANGED <<segInput, componentVars>>

\* the scans of updateCurrentPosition at one playback position; with no
\* paragraphs the function returns before computing anything
Locate ==
    /\ segOutput.stage = "grouped"
    /\ Len(segOutput.paragraphs) # 0
    /\ \E t \in Times :
          segOutput' =
              [stage         |-> "located",
               sentences     |-> segOutput.sentences,
               paragraphs    |-> segOutput.paragraphs,
               currentTimeMs |-> CurrentTimeMs(t),
               newParagraphIndex |->
                   NewParagraphIndex(segOutput.paragraphs, CurrentTimeMs(t)),
               newSentenceIndex |->
                   NewSentenceIndex(segOutput.paragraphs, CurrentTimeMs(t))]
    /\ UNCHANGED <<segInput, componentVars>>

SegNext == Segment \/ Locate

SpecSegment == SegInit /\ [][SegNext]_vars

-----------------------------------------------------------------------------
(* Claims on the segmenter, the grouper and the locator (SpecSegment)      *)

Grouped == segOutput.stage \in {"grouped", "located"}

\* the sentences produced by transcript line l (1-based), in order
SentencesOfLine(l) ==
    SelectSeq(segOutput.sentences, LAMBDA s : s.originalIndex = l - 1)

\* inclusive-bounds test, as the claims state it
Within(unit, t) == unit.startOffset <= t /\ t <= unit.endOffset

\* C1: a caption line (offset O, duration D >= 0) that yields N >= 1
\* sentences gives sentence i the interval [O + i*(D/N), O + (i+1)*(D/N)]:
\* the intervals are contiguous, start at O, end at O + D, none is reversed,
\* and their durations sum to D. (Equalities multiplied through by N.)
C1_SentenceTiming ==
    Grouped =>
        \A l \in 1..Len(segInput) :
            LET S == SentencesOfLine(l)
                N == Len(S)
                O == segInput[l].offset
                D == segInput[l].duration
            IN  N >= 1 =>
                  /\ \A i \in 0..(N - 1) :
                        /\ N * S[i + 1].startOffset = N * O + i * D
                        /\ N * S[i + 1].endOffset = N * O + (i + 1) * D
                        /\ S[i + 1].endOffset >= S[i + 1].startOffset
                  /\ \A i \in 1..(N - 1) : S[i].endOffset = S[i + 1].startOffset
                  /\ S[1].startOffset = O
                  /\ S[N].endOffset = O + D
                  /\ SeqSum([i \in 1..N |-> S[i].endOffset - S[i].startOffset]) = D

C1_Witness ==
    /\ Grouped
    /\ \E l \in 1..Len(segInput) :
          /\ Len(SentencesOfLine(l)) = 3
          /\ segInput[l].duration > 0
          /\ segInput[l].offset > 0

\* C2: N sentences give ceil(N/3) paragraphs, all but possibly the last of
\* exactly 3 sentences, the last of 1 to 3, none empty; no sentences give no
\* paragraphs; 7 sentences give sizes 3, 3, 1.
C2_ParagraphSizes ==
    Grouped =>
        LET N == Len(segOutput.sentences)
            P == segOutput.paragraphs
        IN  /\ Len(P) = (N + 2) \div 3
            /\ \A k \in 1..(Len(P) - 1) : Len(P[k].sentences) = 3
            /\ \A k \in 1..Len(P) : Len(P[k].sentences) \in 1..3
            /\ (N = 0) => (P = <<>>)
            /\ (N = 7) => ([k \in 1..Len(P) |-> Len(P[k].sentences)] = <<3, 3, 1>>)

C2_Witness ==
    /\ Grouped
    /\ Len(segOutput.sentences) = 7
    /\ Len(segOutput.paragraphs) = 3
    /\ Len(segOutput.paragraphs[3].sentences) = 1

\* C3: for a non-empty paragraph sequence the computed paragraph index is
\* the smallest i whose paragraph contains currentTimeMs (bounds inclusive),
\* -1 if none; the computed sentence index is the smallest such j within
\* that paragraph, -1 if no paragraph matched or no sentence of it matches.
C3_LocatorResult ==
    segOutput.stage = "located" =>
        LET P  == segOutput.paragraphs
            t  == segOutput.currentTimeMs
            pi == segOutput.newParagraphIndex
            si == segOutput.newSentenceIndex
            hitP == {i \in 0..(Len(P) - 1) : Within(P[i + 1], t)}
        IN  /\ IF hitP = {} THEN pi = -1
                            ELSE pi \in hitP /\ \A i \in hitP : pi <= i
            /\ IF pi = -1 THEN si = -1
               ELSE LET S == P[pi + 1].sentences
                        hitS == {j \in 0..(Len(S) - 1) : Within(S[j + 1], t)}
                    IN  IF hitS = {} THEN si = -1
                                     ELSE si \in hitS /\ \A j \in hitS : si <= j

C3_Witness ==
    /\ segOutput.stage = "located"
    /\ segOutput.newParagraphIndex >= 1
    /\ segOutput.newSentenceIndex >= 1
    /\ segOutput.currentTimeMs =
         segOutput.paragraphs[segOutput.newParagraphIndex + 1].endOffset

-----------------------------------------------------------------------------
(* MediaFrame: the transcript container as rendered                        *)
(* layout = [containerHeight, paragraphHeight] in px: the container's      *)
(* visible height and the height of every paragraph element; paragraph     *)
(* elements are stacked from the top of the scrolled content.              *)

\* the content is kept on screen while a fetch is loading
ContentRenderedWhileLoading(paragraphs, loading) == Len(paragraphs) > 0

\* {transcriptParagraphs.length > 0 && !transcriptLoading && (content)}
ContentRendered(paragraphs, loading) == Len(paragraphs) > 0 /\ ~loading

\* container.querySelector(`[data-paragraph-index="${i}"]`) finds an element
ElementPresent(i, paragraphs, loading) ==
    ContentRendered(paragraphs, loading) /\ 0 <= i /\ i < Len(paragraphs)

\* the height of one paragraph is read instead of the container's
ClientHeightOfParagraph == IF attached THEN layout.paragraphHeight ELSE 0

\* container.clientHeight (0 once the container is out of the document)
ClientHeight == IF attached THEN layout.containerHeight ELSE 0

\* container.scrollHeight
ScrollHeight(paragraphs, loading) ==
    IF ~attached THEN 0
    ELSE IF ContentRendered(paragraphs, loading)
         THEN Max(Len(paragraphs) * layout.paragraphHeight, ClientHeight)
         ELSE ClientHeight

\* elementRect.top - containerRect.top for paragraph element i
RectTopDifference(i) == RSub(R(i * layout.paragraphHeight), scrollTop)

-----------------------------------------------------------------------------
(* MediaFrame: the auto-scroll effect and its animation                    *)

YOffset == -100

ScrollThreshold == 10

AnimDuration == 300

\* startTime === null
NotStarted == -1

\* Math.max(0, Math.min(targetScrollTop, maxScrollTop))
ClampNoUpper(targetScrollTop, maxScrollTop) == RMax(R(0), targetScrollTop)

Clamp(targetScrollTop, maxScrollTop) ==
    RMax(R(0), RMin(targetScrollTop, maxScrollTop))

\* if (Math.abs(scrollDistance) > 10)
ShouldAnimateAtThreshold(scrollDistance) ==
    RLe(R(ScrollThreshold), RAbs(scrollDistance))

ShouldAnimate(scrollDistance) ==
    RLt(R(ScrollThreshold), RAbs(scrollDistance))

\* the locals of one run of the effect for the new currentParagraphIndex
AutoScrollLocals(index, paragraphs, loading) ==
    LET found                 == ElementPresent(index, paragraphs, loading)
        containerHeight       == ClientHeight
        containerScrollHeight == ScrollHeight(paragraphs, loading)
        elementHeight         == layout.paragraphHeight
        elementRelativeTop    == RAdd(RectTopDifference(index), scrollTop)
        targetScrollTop       ==
            RSub(RAdd(RSub(elementRelativeTop, RDivInt(R(containerHeight), 2)),
                      RDivInt(R(elementHeight), 2)),
                 R(YOffset))
        maxScrollTop          == R(Max(0, containerScrollHeight - containerHeight))
        clampedScrollTop      == Clamp(targetScrollTop, maxScrollTop)
        currentScrollTop      == scrollTop
        scrollDistance        == RSub(clampedScrollTop, currentScrollTop)
        overflow              == containerScrollHeight > containerHeight
    IN  [ran                |-> TRUE,
         paragraphIndex     |-> index,
         found              |-> found,
         overflow           |-> overflow,
         elementRelativeTop |-> elementRelativeTop,
         targetScrollTop    |-> targetScrollTop,
         maxScrollTop       |-> maxScrollTop,
         clampedScrollTop   |-> clampedScrollTop,
         currentScrollTop   |-> currentScrollTop,
         scrollDistance     |-> scrollDistance,
         animate            |-> found /\ overflow /\ ShouldAnimate(scrollDistance)]

\* React.useEffect(() => {...}, [currentParagraphIndex]) for the new index
RunAutoScroll(index, paragraphs, loading) ==
    LET e == AutoScrollLocals(index, paragraphs, loading)
    IN  /\ lastEffect' = e
        /\ lastFrame' = <<>>
        /\ IF e.animate
           THEN /\ frameQueue' =
                      Append(frameQueue,
                             [id               |-> animsStarted + 1,
                              currentScrollTop |-> e.currentScrollTop,
                              scrollDistance   |-> e.scrollDistance,
                              elapsed          |-> NotStarted])
                /\ animsStarted' = animsStarted + 1
           ELSE UNCHANGED <<frameQueue, animsStarted>>
        /\ UNCHANGED <<layout, scrollTop>>

NoAutoScroll ==
    /\ lastEffect' = NoEffect
    /\ lastFrame' = <<>>
    /\ UNCHANGED <<layout, scrollTop, frameQueue, animsStarted>>

\* const easeInOutQuad = (t) => t < 0.5 ? 2 * t * t : -1 + (4 - 2 * t) * t
easeInQuadOnly(t) == RMul(R(2), RMul(t, t))

easeInOutQuad(t) ==
    IF RLt(t, Norm(1, 2))
    THEN RMul(R(2), RMul(t, t))
    ELSE RAdd(R(-1), RMul(RSub(R(4), RMul(R(2), t)), t))

\* the animation takes twice the duration
ProgressHalfSpeed(elapsed) == RMin(Norm(elapsed, 2 * AnimDuration), R(1))

\* const progress = Math.min(elapsed / duration, 1)
Progress(elapsed) == RMin(Norm(elapsed, AnimDuration), R(1))

\* the interpolation starts from the target
ScrollValueFromTarget(currentScrollTop, scrollDistance, easedProgress) ==
    RAdd(RAdd(currentScrollTop, scrollDistance),
         RMul(scrollDistance, easedProgress))

\* container.scrollTop = currentScrollTop + scrollDistance * easedProgress
ScrollValue(currentScrollTop, scrollDistance, easedProgress) ==
    RAdd(currentScrollTop, RMul(scrollDistance, easedProgress))

\* the frame callbacks of one display frame, in the order they were
\* requested; dt is the time since the previous frame. acc collects the
\* offset written last, the callbacks requested again and a log of the run.
RECURSIVE RunCallbacks(_, _, _)
RunCallbacks(queue, dt, acc) ==
    IF queue = <<>> THEN acc
    ELSE LET c             == Head(queue)
             elapsed       == IF c.elapsed = NotStarted THEN 0 ELSE c.elapsed + dt
             progress      == Progress(elapsed)
             easedProgress == easeInOutQuad(progress)
             value         == ScrollValue(c.currentScrollTop, c.scrollDistance,
                                          easedProgress)
             again         == RLt(progress, R(1))
         IN  RunCallbacks(Tail(queue), dt,
                 [scrollTop |-> value,
                  queue     |-> IF again
                                THEN Append(acc.queue, [c EXCEPT !.elapsed = elapsed])
                                ELSE acc.queue,
                  log       |-> Append(acc.log,
                                       [id        |-> c.id,
                                        progress  |-> progress,
                                        value     |-> value,
                                        start     |-> c.currentScrollTop,
                                        target    |-> RAdd(c.currentScrollTop,
                                                           c.scrollDistance),
                                        requested |-> again])])

-----------------------------------------------------------------------------
(* MediaFrame: effects run after a render                                  *)

\* the auto-scroll effect depends on the sentence index as well
RunEffectsOnSentence(paragraphs, timestamp, loading) ==
    LET currentTimeMs     == CurrentTimeMs(timestamp)
        newParagraphIndex ==
            IF Len(paragraphs) = 0 THEN currentParagraphIndex
            ELSE NewParagraphIndex(paragraphs, currentTimeMs)
        newSentenceIndex  ==
            IF Len(paragraphs) = 0 THEN currentSentenceIndex
            ELSE NewSentenceIndex(paragraphs, currentTimeMs)
    IN  /\ currentParagraphIndex' = newParagraphIndex
        /\ currentSentenceIndex' = newSentenceIndex
        /\ IF newParagraphIndex # currentParagraphIndex
              \/ newSentenceIndex # currentSentenceIndex
           THEN RunAutoScroll(newParagraphIndex, paragraphs, loading)
           ELSE NoAutoScroll

\* updateCurrentPosition followed, when currentParagraphIndex changed, by
\* the auto-scroll effect; paragraphs, timestamp and loading are the values
\* of the render that triggers the effects
RunEffects(paragraphs, timestamp, loading) ==
    LET currentTimeMs     == CurrentTimeMs(timestamp)
        newParagraphIndex ==
            IF Len(paragraphs) = 0 THEN currentParagraphIndex
            ELSE NewParagraphIndex(paragraphs, currentTimeMs)
        newSentenceIndex  ==
            IF Len(paragraphs) = 0 THEN currentSentenceIndex
            ELSE NewSentenceIndex(paragraphs, currentTimeMs)
    IN  /\ currentParagraphIndex' = newParagraphIndex
        /\ currentSentenceIndex' = newSentenceIndex
        /\ IF newParagraphIndex # currentParagraphIndex
           THEN RunAutoScroll(newParagraphIndex, paragraphs, loading)
           ELSE NoAutoScroll

-----------------------------------------------------------------------------
(* MediaFrame: handlers                                                    *)

MaxFetches == 2

MaxQueries == 1

MaxTimers == 2

MaxAnimations == 2

\* onStateChange notifications of the player: unstarted, ended, playing,
\* paused, buffering, cued
PlayerStates == {-1, 0, 1, 2, 3, 5}

\* the state right after the first render of a YouTube MediaFrame with
\* showTranscript on: the fetch effect has started the first fetch
Mounted(l) ==
    /\ transcript = <<>>
    /\ transcriptParagraphs = <<>>
    /\ transcriptLoading = TRUE
    /\ transcriptError = NoError
    /\ currentTimestamp = 0
    /\ currentParagraphIndex = -1
    /\ currentSentenceIndex = -1
    /\ hideProgressBar = TRUE
    /\ intervalRef = 0
    /\ mounted = TRUE
    /\ attached = TRUE
    /\ fetches = {1}
    /\ fetchesStarted = 1
    /\ pendingQueries = 0
    /\ activeTimers = {}
    /\ timersCreated = 0
    /\ lastPlayerState = -1
    /\ pollsAfterStop = FALSE
    /\ layout = l
    /\ scrollTop = R(0)
    /\ frameQueue = <<>>
    /\ animsStarted = 0
    /\ lastEffect = NoEffect
    /\ lastFrame = <<>>

\* the fetch effect re-runs because transcriptLanguage changed in the
\* settings: fetchTranscript() up to its await
LanguageChange ==
    /\ mounted /\ attached
    /\ fetchesStarted < MaxFetches
    /\ transcriptLoading' = TRUE
    /\ transcriptError' = NoError
    /\ fetches' = fetches \cup {fetchesStarted + 1}
    /\ fetchesStarted' = fetchesStarted + 1
    /\ NoAutoScroll
    /\ UNCHANGED <<transcript, transcriptParagraphs, segVars, posVars,
                   timerVars, lifeVars>>

\* YoutubeTranscript.getTranscript resolves with lines: the rest of the try
\* block and the finally block, then the effects of the render
FetchResolve(results) ==
    \E id \in fetches, lines \in results :
        /\ fetches' = fetches \ {id}
        /\ IF mounted
           THEN /\ transcript' = lines
                /\ transcriptParagraphs' = groupTranscriptIntoParagraphs(lines)
                /\ transcriptLoading' = FALSE
                /\ RunEffects(transcriptParagraphs', currentTimestamp, FALSE)
           ELSE /\ NoAutoScroll
                /\ UNCHANGED <<transcript, transcriptParagraphs,
                               transcriptLoading, currentParagraphIndex,
                               currentSentenceIndex>>
        /\ animsStarted' <= MaxAnimations
        /\ UNCHANGED <<transcriptError, fetchesStarted, currentTimestamp,
                       pendingQueries, segVars, timerVars, lifeVars>>

\* YoutubeTranscript.getTranscript rejects: the catch and finally blocks
FetchReject ==
    \E id \in fetches :
        /\ fetches' = fetches \ {id}
        /\ IF mounted
           THEN /\ transcriptError' = "Failed to fetch transcript"
                /\ transcriptLoading' = FALSE
           ELSE UNCHANGED <<transcriptError, transcriptLoading>>
        /\ NoAutoScroll
        /\ UNCHANGED <<transcript, transcriptParagraphs, fetchesStarted,
                       segVars, posVars, timerVars, lifeVars>>

\* updateTimestamp(): a getCurrentTime() query is sent when ytRef.current is
\* set, i.e. while the component is mounted
QueriesAfterUpdateTimestamp ==
    IF mounted THEN pendingQueries + 1 ELSE pendingQueries

\* context.showTimestamp becomes true: the effect calls updateTimestamp()
ShowTimestamp ==
    /\ mounted /\ attached
    /\ pendingQueries < MaxQueries
    /\ pendingQueries' = QueriesAfterUpdateTimestamp
    /\ NoAutoScroll
    /\ UNCHANGED <<currentTimestamp, currentParagraphIndex,
                   currentSentenceIndex, segVars, fetchVars, timerVars,
                   lifeVars>>

\* a getCurrentTime() promise resolves with time: setCurrentTimestamp(time),
\* then the effects of the render
TimestampResolved(times) ==
    \E time \in times :
        /\ pendingQueries > 0
        /\ pendingQueries' = pendingQueries - 1
        /\ IF mounted
           THEN /\ currentTimestamp' = time
                /\ RunEffects(transcriptParagraphs, time, transcriptLoading)
           ELSE /\ NoAutoScroll
                /\ UNCHANGED <<currentTimestamp, currentParagraphIndex,
                               currentSentenceIndex>>
        /\ animsStarted' <= MaxAnimations
        /\ UNCHANGED <<segVars, fetchVars, timerVars, lifeVars>>

\* one display frame, dt ms after the previous one: every pending
\* animateScroll callback runs
Frame(deltas) ==
    \E dt \in deltas :
        /\ frameQueue # <<>>
        /\ LET r == RunCallbacks(frameQueue, dt,
                        [scrollTop |-> scrollTop, queue |-> <<>>, log |-> <<>>])
           IN  /\ scrollTop' = r.scrollTop
               /\ frameQueue' = r.queue
               /\ lastFrame' = r.log
        /\ lastEffect' = NoEffect
        /\ UNCHANGED <<layout, animsStarted, segVars, fetchVars, posVars,
                       timerVars, lifeVars>>

\* the latest notification is paused or ended, or the component or its
\* container is gone
PollingStopped ==
    lastPlayerState \in {2, 0} \/ ~mounted \/ ~attached

\* onStateChange(event) with event.data = state
StateChange ==
    \E state \in PlayerStates :
        /\ mounted /\ attached
        /\ state = 1 => (timersCreated < MaxTimers /\ pendingQueries < MaxQueries)
        /\ lastPlayerState' = state
        /\ IF state = 1
           THEN /\ pendingQueries' = QueriesAfterUpdateTimestamp
                /\ timersCreated' = timersCreated + 1
                /\ activeTimers' = activeTimers \cup {timersCreated + 1}
                /\ intervalRef' = timersCreated + 1
                /\ hideProgressBar' = FALSE
           ELSE IF state \in {2, 0} /\ intervalRef # 0
                THEN /\ activeTimers' = activeTimers \ {intervalRef}
                     /\ hideProgressBar' = TRUE
                     /\ UNCHANGED <<pendingQueries, timersCreated, intervalRef>>
                ELSE UNCHANGED <<pendingQueries, timersCreated, activeTimers,
                                 intervalRef, hideProgressBar>>
        /\ pollsAfterStop' = pollsAfterStop
        /\ NoAutoScroll
        /\ UNCHANGED <<currentTimestamp, currentParagraphIndex,
                       currentSentenceIndex, segVars, fetchVars, lifeVars>>

\* an active interval fires: updateTimestamp()
TimerTick ==
    \E handle \in activeTimers :
        /\ pendingQueries < MaxQueries
        /\ pendingQueries' = QueriesAfterUpdateTimestamp
        /\ pollsAfterStop' =
              (pollsAfterStop \/ (PollingStopped /\ pendingQueries' > pendingQueries))
        /\ NoAutoScroll
        /\ UNCHANGED <<currentTimestamp, currentParagraphIndex,
                       currentSentenceIndex, hideProgressBar, intervalRef,
                       activeTimers, timersCreated, lastPlayerState, segVars,
                       fetchVars, lifeVars>>

\* React unmounts the component: the cleanup of the mount effect
Unmount ==
    /\ mounted
    /\ mounted' = FALSE
    /\ activeTimers' =
          IF intervalRef # 0 THEN activeTimers \ {intervalRef} ELSE activeTimers
    /\ NoAutoScroll
    /\ UNCHANGED <<attached, hideProgressBar, intervalRef, timersCreated,
                   lastPlayerState, pollsAfterStop, segVars, fetchVars, posVars>>

\* the plugin takes the player container out of the view: div.remove() in
\* renderPlayerInView and onunload; the React root is left as it is
RemoveContainer ==
    /\ attached
    /\ attached' = FALSE
    /\ NoAutoScroll
    /\ UNCHANGED <<mounted, segVars, fetchVars, posVars, timerVars>>

-----------------------------------------------------------------------------
(* Spec: the component's transcript and position state (fetches, position  *)
(* queries, locator) in a container tall enough never to scroll            *)

Line(text, offsetMs, durationMs) ==
    [text |-> text, offset |-> Ms(offsetMs), duration |-> Ms(durationMs)]

OneSentence == <<"a">>

TwoSentences == <<"a", ".", " ", "b", "!">>

ThreeSentences == <<"a", "?", " ", "b", ".", " ", "c">>

\* what the transcript source may resolve with: no lines, a blank line, one
\* sentence, two paragraphs sharing an instant, two paragraphs with a gap,
\* overlapping lines
CompTranscripts ==
    { <<>>,
      <<Line(<<>>, 0, 3)>>,
      <<Line(OneSentence, 0, 3)>>,
      <<Line(ThreeSentences, 0, 3), Line(ThreeSentences, 3, 3)>>,
      <<Line(ThreeSentences, 0, 3), Line(TwoSentences, 6, 0)>>,
      <<Line(TwoSentences, 0, 6), Line(TwoSentences, 3, 3)>> }

TallLayout == [containerHeight |-> 600, paragraphHeight |-> 60]

Init ==
    /\ SegIdle
    /\ Mounted(TallLayout)

Next ==
    \/ FetchResolve(CompTranscripts)
    \/ FetchReject
    \/ LanguageChange
    \/ ShowTimestamp
    \/ TimestampResolved(Times)

Spec == Init /\ [][Next]_vars

-----------------------------------------------------------------------------
(* SpecScroll: the auto-scroll effect and its animation frames over a      *)
(* transcript of four paragraphs                                           *)

ScrollTranscripts ==
    { <<Line(ThreeSentences, 0, 3), Line(ThreeSentences, 3, 3),
        Line(ThreeSentences, 6, 3), Line(ThreeSentences, 9, 3)>> }

\* playback positions inside paragraphs 0..3 and after the last one
ScrollTimes == {k * (TimeScale \div 2) : k \in {3, 9, 15, 21, 27}}

\* a container whose content overflows (targets 160.5, 267.5, 317 and 327
\* of a scrollable height of 327) and one whose content fits
ScrollLayouts ==
    { [containerHeight |-> 101, paragraphHeight |-> 107],
      [containerHeight |-> 600, paragraphHeight |-> 102] }

\* time between display frames, ms
FrameDeltas == {150, 375}

ScrollInit ==
    /\ SegIdle
    /\ \E l \in ScrollLayouts : Mounted(l)

ScrollNext ==
    \/ FetchResolve(ScrollTranscripts)
    \/ ShowTimestamp
    \/ TimestampResolved(ScrollTimes)
    \/ Frame(FrameDeltas)

SpecScroll == ScrollInit /\ [][ScrollNext]_vars

-----------------------------------------------------------------------------
(* SpecTimer: player state notifications, the polling interval and the     *)
(* teardown of the component                                               *)

TimerTimes == {0, TimeScale}

TimerInit ==
    /\ SegIdle
    /\ Mounted(TallLayout)

TimerNext ==
    \/ StateChange
    \/ TimerTick
    \/ TimestampResolved(TimerTimes)
    \/ Unmount
    \/ RemoveContainer

SpecTimer == TimerInit /\ [][TimerNext]_vars

-----------------------------------------------------------------------------
(* Claims on the component's active location (Spec)                        *)

\* C5 as stated: for every paragraph sequence and every currentTimeMs that
\* lies in no paragraph's inclusive range, the active location after the
\* position update is {paragraphIndex: -1, sentenceIndex: -1}.
C5_Original ==
    (/\ mounted
     /\ \A k \in 1..Len(transcriptParagraphs) :
           ~Within(transcriptParagraphs[k], CurrentTimeMs(currentTimestamp)))
        => (currentParagraphIndex = -1 /\ currentSentenceIndex = -1)

-----------------------------------------------------------------------------
(* Claims on the auto-scroll effect and its animation (SpecScroll)         *)

\* the auto-scroll effect ran in the last step, found the element of the
\* active paragraph and the content overflows the container
EffectComputedTarget ==
    lastEffect.ran /\ lastEffect.found /\ lastEffect.overflow

\* scrollableHeight = max(0, contentHeight - containerHeight)
ScrollableHeight ==
    Max(0, Len(transcriptParagraphs) * layout.paragraphHeight
           - layout.containerHeight)

\* C6: when the active paragraph changes and content overflows, the target
\* is elementRelativeTop - containerHeight/2 + elementHeight/2 - biasOffset
\* clamped to [0, scrollableHeight]; so the target the animation aims at is
\* never below 0 nor above scrollableHeight; and elementRelativeTop is the
\* element's position in the scrolled content, whatever the scroll offset.
C6_ScrollTarget ==
    EffectComputedTarget =>
        LET i        == lastEffect.paragraphIndex
            relTop   == i * layout.paragraphHeight
            \* twice the unclamped target, to stay in integers
            twice    == 2 * relTop - layout.containerHeight
                          + layout.paragraphHeight - 2 * (-100)
            raw      == Norm(twice, 2)
            expected == IF RLt(raw, R(0)) THEN R(0)
                        ELSE IF RLt(R(ScrollableHeight), raw)
                             THEN R(ScrollableHeight)
                             ELSE raw
        IN  /\ lastEffect.elementRelativeTop = R(relTop)
            /\ lastEffect.clampedScrollTop = expected
            /\ RLe(R(0), lastEffect.clampedScrollTop)
            /\ RLe(lastEffect.clampedScrollTop, R(ScrollableHeight))
            /\ lastEffect.animate =>
                  LET a == frameQueue[Len(frameQueue)]
                  IN  RAdd(a.currentScrollTop, a.scrollDistance) = expected

C6_Witness ==
    /\ EffectComputedTarget
    /\ lastEffect.animate
    /\ RLt(lastEffect.maxScrollTop, lastEffect.targetScrollTop)
    /\ lastEffect.clampedScrollTop = lastEffect.maxScrollTop
    /\ scrollTop # R(0)

\* C7: when an animation toward a clamped target T runs until progress
\* reaches 1, the offset written by its final frame callback is exactly T
\* (it is the container's offset after the frame when no later-started
\* animation writes in the same frame), and the animation requests no
\* further frame, so no later frame of it changes the offset.
C7_AnimationCompletion ==
    \A k \in 1..Len(lastFrame) :
        lastFrame[k].progress = R(1) =>
            /\ lastFrame[k].value = lastFrame[k].target
            /\ ~lastFrame[k].requested
            /\ \A q \in 1..Len(frameQueue) : frameQueue[q].id # lastFrame[k].id
            /\ (k = Len(lastFrame)) => scrollTop = lastFrame[k].target

C7_Witness ==
    /\ Len(lastFrame) = 1
    /\ lastFrame[1].progress = R(1)
    /\ scrollTop = lastFrame[1].target
    /\ scrollTop # R(0)
    /\ frameQueue = <<>>

\* C8 as stated: a new animation replaces the in-flight one outright: the
\* old animation's frame callbacks write no more, at most one frame chain is
\* pending at any time, and the new animation starts from the actual scroll
\* offset at the moment of replacement.
C8_Original ==
    /\ Len(frameQueue) <= 1
    /\ \A k \in 1..Len(lastFrame) : lastFrame[k].id = animsStarted
    /\ (lastEffect.ran /\ lastEffect.animate) =>
          frameQueue[Len(frameQueue)].currentScrollTop = scrollTop

\* C9: when |clampedTarget - currentOffset| <= 10 at the moment the active
\* paragraph changes, no animation frame is requested and the scroll offset
\* is left unchanged; an animation is started only when the distance is
\* strictly greater than 10.
C9_JitterThreshold ==
    [][ /\ (lastEffect'.ran /\ lastEffect'.found /\ lastEffect'.overflow
              /\ RLe(RAbs(RSub(lastEffect'.clampedScrollTop, scrollTop)), R(10)))
           => (frameQueue' = frameQueue /\ scrollTop' = scrollTop
                 /\ animsStarted' = animsStarted)
        /\ (animsStarted' # animsStarted \/ Len(frameQueue') > Len(frameQueue))
           => (/\ lastEffect'.ran /\ lastEffect'.found /\ lastEffect'.overflow
               /\ RLt(R(10), RAbs(RSub(lastEffect'.clampedScrollTop, scrollTop)))
               /\ Len(frameQueue') = Len(frameQueue) + 1
               /\ scrollTop' = scrollTop)
      ]_vars

C9_Witness ==
    /\ EffectComputedTarget
    /\ ~lastEffect.animate
    /\ RAbs(lastEffect.scrollDistance) = R(10)
    /\ scrollTop = lastEffect.currentScrollTop

-----------------------------------------------------------------------------
(* Claims on the polling timer (SpecTimer)                                 *)

\* C10 as stated: once the latest player state notification is paused or
\* ended, or once the component has been torn down (the plugin removing the
\* player container included), no position-polling timer remains active and
\* no further playback-position polls are issued.
C10_Original ==
    PollingStopped => (activeTimers = {} /\ ~pollsAfterStop)

-----------------------------------------------------------------------------
(* SpecTeardown: asynchronous continuations (fetch completions, position   *)
(* query resolutions) against the teardown of the component                *)

TeardownInit ==
    /\ SegIdle
    /\ Mounted(TallLayout)

TeardownNext ==
    \/ FetchResolve(CompTranscripts)
    \/ FetchReject
    \/ LanguageChange
    \/ ShowTimestamp
    \/ TimestampResolved(TimerTimes)
    \/ Unmount
    \/ RemoveContainer

SpecTeardown == TeardownInit /\ [][TeardownNext]_vars

-----------------------------------------------------------------------------
(* Claims on the transcript fetches (Spec, SpecTeardown)                   *)

\* C11 as stated: when a newer fetch B was started while an older fetch A
\* was pending, the transcript, paragraph list and error shown after both
\* have completed are those of B: a completion of an older fetch that
\* arrives after the newest fetch has completed changes none of them.
C11_Original ==
    [][ (/\ mounted
         /\ fetchesStarted \notin fetches
         /\ fetchesStarted' = fetchesStarted
         /\ fetches' # fetches)
        => (/\ transcript' = transcript
            /\ transcriptParagraphs' = transcriptParagraphs
            /\ transcriptError' = transcriptError)
      ]_vars

\* C12 as stated: once the component has been torn down (unmounted, or its
\* container removed from the view by the plugin), a continuation that runs
\* later applies no state update: transcript, paragraphs, loading flag,
\* error and current timestamp stay as they were at teardown.
C12_Original ==
    [][ (~mounted \/ ~attached)
        => (/\ transcript' = transcript
            /\ transcriptParagraphs' = transcriptParagraphs
            /\ transcriptLoading' = transcriptLoading
            /\ transcriptError' = transcriptError
            /\ currentTimestamp' = currentTimestamp)
      ]_vars

\* C13 as stated: a failing fetch (the only step that sets the error) ends
\* with the error message set and the loading flag false, starts no new
\* fetch, and clears the previously displayed transcript: the raw
\* transcript and the paragraph list are empty after the failure.
C13_Original ==
    [][ (transcriptError = NoError /\ transcriptError' # NoError)
        => (/\ ~transcriptLoading'
            /\ fetchesStarted' = fetchesStarted
            /\ fetches' \subseteq fetches
            /\ transcript' = <<>>
            /\ transcriptParagraphs' = <<>>)
      ]_vars

-----------------------------------------------------------------------------
(* Plugin shell: formatTimestamp and convertTimestampToSeconds. A number   *)
(* of seconds is an exact rational, a timestamp text a sequence of         *)
(* one-character strings.                                                  *)

DigitChars == <<"0", "1", "2", "3", "4", "5", "6", "7", "8", "9">>

\* Math.floor of a rational
Floor(x) == x.n \div x.d

\* the decimal text of a non-negative integer, as `${n}` renders it
RECURSIVE NumberToString(_)
NumberToString(n) ==
    IF n < 10 THEN <<DigitChars[n + 1]>>
    ELSE Append(NumberToString(n \div 10), DigitChars[(n % 10) + 1])

\* the timestamp argument when it is undefined
Undefined == [defined |-> FALSE, value |-> R(0)]

Defined(x) == [defined |-> TRUE, value |-> x]

\* n < 10 ? `0${n}` : n
PadTwoNever(n) == NumberToString(n)

PadTwo(n) == IF n < 10 THEN <<"0">> \o NumberToString(n) ELSE NumberToString(n)

formatTimestampMinutesOfTotal(timestamp) ==
    IF ~timestamp.defined THEN <<>>
    ELSE LET t       == timestamp.value
             hours   == Floor(RDivInt(t, 3600))
             minutes == Floor(RDivInt(t, 60))
             seconds == Floor(RSub(t, R(minutes * 60)))
         IN  (IF hours > 0 THEN NumberToString(hours) \o <<":">> ELSE <<>>)
                 \o PadTwo(minutes) \o <<":">> \o PadTwo(seconds)

formatTimestamp(timestamp) ==
    IF ~timestamp.defined THEN <<>>
    ELSE LET t       == timestamp.value
             hours   == Floor(RDivInt(t, 3600))
             minutes == Floor(RDivInt(RSub(t, R(hours * 3600)), 60))
             seconds == Floor(RSub(RSub(t, R(hours * 3600)), R(minutes * 60)))
             formattedSeconds == PadTwo(seconds)
             formattedMinutes == PadTwo(minutes)
         IN  (IF hours > 0 THEN NumberToString(hours) \o <<":">> ELSE <<>>)
                 \o formattedMinutes \o <<":">> \o formattedSeconds

\* String.prototype.split(":"): the pieces between every ":" (empty ones kept)
RECURSIVE SplitOnColon(_, _)
SplitOnColon(text, piece) ==
    IF text = <<>> THEN <<piece>>
    ELSE IF Head(text) = ":"
         THEN <<piece>> \o SplitOnColon(Tail(text), <<>>)
         ELSE SplitOnColon(Tail(text), Append(piece, Head(text)))

\* the digit a character stands for
DigitOf(c) == (CHOOSE k \in 1..10 : DigitChars[k] = c) - 1

\* Number(text) for a text of decimal digits; Number("") is 0
RECURSIVE Number(_)
Number(text) ==
    IF text = <<>> THEN 0
    ELSE 10 * Number(SubSeq(text, 1, Len(text) - 1)) + DigitOf(text[Len(text)])

convertTimestampToSecondsTwoPartsAsHours(timestamp) ==
    LET pieces         == SplitOnColon(timestamp, <<>>)
        timestampParts == [k \in 1..Len(pieces) |-> Number(pieces[k])]
    IN  IF Len(timestampParts) = 3
        THEN timestampParts[1] * 3600 + timestampParts[2] * 60 + timestampParts[3]
        ELSE IF Len(timestampParts) = 2
             THEN timestampParts[1] * 3600 + timestampParts[2]
             ELSE timestampParts[1]

convertTimestampToSeconds(timestamp) ==
    LET pieces         == SplitOnColon(timestamp, <<>>)
        timestampParts == [k \in 1..Len(pieces) |-> Number(pieces[k])]
    IN  IF Len(timestampParts) = 3
        THEN timestampParts[1] * 3600 + timestampParts[2] * 60 + timestampParts[3]
        ELSE IF Len(timestampParts) = 2
             THEN timestampParts[1] * 60 + timestampParts[2]
             ELSE timestampParts[1]

-----------------------------------------------------------------------------
(* SpecTimestamp: formatTimestamp applied to numbers of seconds and        *)
(* convertTimestampToSeconds applied to the formatted text and to texts    *)
(* written by hand                                                         *)

MaxTsSeconds == 3725

\* whole and half seconds up to the bound, some values with hours of two and
\* three digits, and undefined
TsNumbers ==
    {Norm(k, 2) : k \in 0..(2 * MaxTsSeconds + 1)}
        \cup {Norm(2 * (h * 3600 + r) + f, 2) :
                 h \in {10, 100}, r \in {0, 59, 600, 3599}, f \in {0, 1}}

TsFormatInputs ==
    {[kind |-> "seconds", timestamp |-> Defined(x)] : x \in TsNumbers}
        \cup {[kind |-> "seconds", timestamp |-> Undefined]}

MaxParts == 4

\* the parts of a hand-written timestamp: an integer, written with or
\* without one leading zero
PartValues == {0, 7, 90}

Parts == [value : PartValues, zero : BOOLEAN]

PartText(part) ==
    (IF part.zero THEN <<"0">> ELSE <<>>) \o NumberToString(part.value)

\* parts joined with ":"
RECURSIVE JoinParts(_)
JoinParts(parts) ==
    IF Len(parts) = 1 THEN PartText(parts[1])
    ELSE PartText(parts[1]) \o <<":">> \o JoinParts(Tail(parts))

TsParseInputs ==
    {[kind |-> "text", parts |-> ps, text |-> JoinParts(ps)] :
        ps \in SeqsUpTo(Parts, MaxParts) \ {<<>>}}

TsInit ==
    /\ segInput \in TsFormatInputs \cup TsParseInputs
    /\ segOutput = [stage |-> "input"]
    /\ ComponentIdle

\* formatTimestamp(segInput.timestamp)
FormatTs ==
    /\ segOutput.stage = "input"
    /\ segInput.kind = "seconds"
    /\ segOutput' = [stage |-> "formatted",
                     text  |-> formatTimestamp(segInput.timestamp)]
    /\ UNCHANGED <<segInput, componentVars>>

\* convertTimestampToSeconds of the formatted text
ConvertFormatted ==
    /\ segOutput.stage = "formatted"
    /\ segOutput' = [stage   |-> "converted",
                     text    |-> segOutput.text,
                     seconds |-> convertTimestampToSeconds(segOutput.text)]
    /\ UNCHANGED <<segInput, componentVars>>

\* convertTimestampToSeconds of a hand-written text
ConvertText ==
    /\ segOutput.stage = "input"
    /\ segInput.kind = "text"
    /\ segOutput' = [stage   |-> "converted",
                     text    |-> segInput.text,
                     seconds |-> convertTimestampToSeconds(segInput.text)]
    /\ UNCHANGED <<segInput, componentVars>>

TsNext == FormatTs \/ ConvertFormatted \/ ConvertText

SpecTimestamp == TsInit /\ [][TsNext]_vars

-----------------------------------------------------------------------------
(* Claims on the timestamp functions (SpecTimestamp)                       *)

\* C14: for every non-negative integer number of seconds s,
\* convertTimestampToSeconds(formatTimestamp(s)) = s, with two-part texts
\* (s < 3600) and s = 0 included; for a fractional s the result is floor(s).
C14_RoundTrip ==
    (segOutput.stage = "converted" /\ segInput.kind = "seconds"
        /\ segInput.timestamp.defined)
    => segOutput.seconds = Floor(segInput.timestamp.value)

C14_Witness ==
    /\ segOutput.stage = "converted"
    /\ segInput.kind = "seconds"
    /\ segInput.timestamp = Defined(R(3723))
    /\ segOutput.text = <<"1", ":", "0", "2", ":", "0", "3">>
    /\ segOutput.seconds = 3723

\* x mod m for a rational x and a positive integer m
RMod(x, m) == RSub(x, R(m * Floor(RDivInt(x, m))))

\* exactly two decimal digits
TwoDigits(n) == <<DigitChars[(n \div 10) + 1], DigitChars[(n % 10) + 1]>>

\* C15: for a non-negative seconds value t with h = floor(t/3600),
\* m = floor((t mod 3600)/60), s = floor(t mod 60), the text is "h:MM:SS"
\* (h without leading zero) when h > 0 and "MM:SS" when h = 0, MM and SS
\* being exactly two digits with 0 <= m, s <= 59; for undefined it is empty.
C15_FormatShape ==
    (segOutput.stage = "formatted") =>
        IF ~segInput.timestamp.defined THEN segOutput.text = <<>>
        ELSE LET t == segInput.timestamp.value
                 h == Floor(RDivInt(t, 3600))
                 m == Floor(RDivInt(RMod(t, 3600), 60))
                 s == Floor(RMod(t, 60))
                 H == NumberToString(h)
             IN  /\ 0 <= m /\ m <= 59 /\ 0 <= s /\ s <= 59
                 /\ h > 0 => (/\ Head(H) # "0"
                              /\ Number(H) = h
                              /\ segOutput.text =
                                    H \o <<":">> \o TwoDigits(m) \o <<":">>
                                      \o TwoDigits(s))
                 /\ h = 0 => segOutput.text =
                                TwoDigits(m) \o <<":">> \o TwoDigits(s)

C15_Witness ==
    /\ segOutput.stage = "formatted"
    /\ segInput.timestamp = Defined(Norm(7447, 2))
    /\ segOutput.text = <<"1", ":", "0", "2", ":", "0", "3">>

\* the value of part k of the hand-written timestamp
PartValue(k) == segInput.parts[k].value

\* C16: three integer parts a:b:c parse to a*3600 + b*60 + c, two parts b:c
\* to b*60 + c and one part c to c; out-of-range parts are accepted and
\* summed as given ("90:00" parses to 5400).
C16_Parser ==
    (segOutput.stage = "converted" /\ segInput.kind = "text") =>
        LET n == Len(segInput.parts)
        IN  /\ n = 3 => segOutput.seconds =
                           PartValue(1) * 3600 + PartValue(2) * 60 + PartValue(3)
            /\ n = 2 => segOutput.seconds = PartValue(1) * 60 + PartValue(2)
            /\ n = 1 => segOutput.seconds = PartValue(1)

C16_Witness ==
    /\ segOutput.stage = "converted"
    /\ segInput.kind = "text"
    /\ segInput.text = <<"9", "0", ":", "0", "0">>
    /\ segOutput.seconds = 5400

-----------------------------------------------------------------------------
(* SpecSplit: groupTranscriptIntoParagraphs applied to one caption line,   *)
(* for every text over a small alphabet                                    *)

MaxTextLen == 5

\* a letter, two terminators, whitespace and the vertical bar
SplitAlphabet == {"a", ".", "?", " ", "|"}

SplitTexts == SeqsUpTo(SplitAlphabet, MaxTextLen)

SplitInit ==
    /\ segInput \in {<<Line(t, 3, 3)>> : t \in SplitTexts}
    /\ segOutput = [stage |-> "input"]
    /\ ComponentIdle

SplitNext == Segment

SpecSplit == SplitInit /\ [][SplitNext]_vars

-----------------------------------------------------------------------------
(* Claims on sentence boundaries (SpecSplit)                               *)

\* the pieces of text from index i on, cut only where a terminator is
\* followed by whitespace (the terminator ends its piece)
RECURSIVE CutAtBoundaries(_, _, _)
CutAtBoundaries(text, i, piece) ==
    IF i > Len(text) THEN <<piece>>
    ELSE IF text[i] \in Terminators /\ i < Len(text) /\ text[i + 1] \in Whitespace
         THEN <<Append(piece, text[i])>> \o CutAtBoundaries(text, i + 1, <<>>)
         ELSE CutAtBoundaries(text, i + 1, Append(piece, text[i]))

\* the non-empty trimmed pieces between such boundaries
ExpectedSentences(text) ==
    LET pieces == CutAtBoundaries(text, 1, <<>>)
    IN  SelectSeq([k \in 1..Len(pieces) |-> Trim(pieces[k])],
                  LAMBDA piece : piece # <<>>)

Blank(text) == \A k \in 1..Len(text) : text[k] \in Whitespace

\* C17 as stated: a line's text is cut into sentences only where '.', '!'
\* or '?' is followed by whitespace, pieces are trimmed and empty ones
\* dropped: the sentences of a line are exactly the non-empty trimmed pieces
\* between such boundaries, no other character causes a cut, and a blank
\* line contributes no sentence.
C17_Original ==
    Grouped =>
        \A l \in 1..Len(segInput) :
            LET S == SentencesOfLine(l)
            IN  /\ [k \in 1..Len(S) |-> S[k].text]
                      = ExpectedSentences(segInput[l].text)
                /\ Blank(segInput[l].text) => S = <<>>

\* C18 as stated: a line whose text is non-blank and holds no '.', '!' or
\* '?' yields exactly one sentence, whose interval is the whole line
\* [offset, offset + duration].
C18_Original ==
    Grouped =>
        \A l \in 1..Len(segInput) :
            LET line == segInput[l]
                S    == SentencesOfLine(l)
            IN  (/\ ~Blank(line.text)
                 /\ \A k \in 1..Len(line.text) : line.text[k] \notin Terminators)
                => (/\ Len(S) = 1
                    /\ S[1].startOffset = line.offset
                    /\ S[1].endOffset = line.offset + line.duration)

-----------------------------------------------------------------------------
(* Claims on the paragraph list (SpecSegment)                              *)

\* the sentence lists of paragraphs k, k+1, ... one after the other
RECURSIVE ConcatSentences(_, _)
ConcatSentences(paragraphs, k) ==
    IF k > Len(paragraphs) THEN <<>>
    ELSE paragraphs[k].sentences \o ConcatSentences(paragraphs, k + 1)

\* C19: the paragraphs' sentence lists, concatenated in paragraph order,
\* are the full sentence sequence (each sentence in exactly one paragraph,
\* no gaps, source order kept), and each paragraph's startOffset is its
\* first sentence's startOffset and its endOffset its last sentence's
\* endOffset.
C19_Partition ==
    Grouped =>
        LET P == segOutput.paragraphs
            S == segOutput.sentences
        IN  /\ ConcatSentences(P, 1) = S
            /\ SeqSum([k \in 1..Len(P) |-> Len(P[k].sentences)]) = Len(S)
            /\ \A i \in 1..(Len(S) - 1) :
                  S[i].originalIndex <= S[i + 1].originalIndex
            /\ \A k \in 1..Len(P) :
                  /\ P[k].sentences # <<>>
                  /\ P[k].startOffset = P[k].sentences[1].startOffset
                  /\ P[k].endOffset =
                        P[k].sentences[Len(P[k].sentences)].endOffset

C19_Witness ==
    /\ Grouped
    /\ Len(segOutput.paragraphs) = 2
    /\ Len(segOutput.sentences) = 5
    /\ Len(segOutput.paragraphs[2].sentences) = 2
    /\ segOutput.paragraphs[1].startOffset < segOutput.paragraphs[2].startOffset
    /\ segOutput.paragraphs[2].startOffset < segOutput.paragraphs[2].endOffset

-----------------------------------------------------------------------------
(* MediaFrame: getVideoId and isYouTubeUrl. A url is either unparsable     *)
(* (new URL(url) throws) or given by the parts new URL(url) returns: the   *)
(* hostname as a sequence of fragments, the pathname as "/" followed by    *)
(* its remainder, and the v query parameter (Null when absent).            *)

Null == [isNull |-> TRUE, value |-> <<>>]

Str(text) == [isNull |-> FALSE, value |-> text]

\* hostname.includes(part), at the granularity of hostname fragments
Includes(hostname, part) == \E k \in 1..Len(hostname) : hostname[k] = part

\* pathname.substring(1)
SubstringFromOne(pathname) ==
    IF pathname = <<>> THEN <<>> ELSE Tail(pathname)

\* searchParams.get("v")
SearchParamV(urlObj) == urlObj.v

isYouTubeUrlLongOnly(url) ==
    IF ~url.parsable THEN FALSE
    ELSE Includes(url.hostname, "youtube.com")

isYouTubeUrl(url) ==
    IF ~url.parsable THEN FALSE
    ELSE Includes(url.hostname, "youtube.com")
            \/ Includes(url.hostname, "youtu.be")

getVideoId(url) ==
    IF ~url.parsable THEN Null
    ELSE IF Includes(url.hostname, "youtube.com")
              \/ Includes(url.hostname, "youtu.be")
         THEN IF Includes(url.hostname, "youtu.be")
              THEN Str(SubstringFromOne(url.pathname))
              ELSE SearchParamV(url)
         ELSE Null

-----------------------------------------------------------------------------
(* SpecUrl: getVideoId and isYouTubeUrl applied, repeatedly, to every url  *)
(* of the input class                                                      *)

MaxHostFragments == 2

MaxCalls == 2

HostFragments == {"www.", "youtube.com", "youtu.be", "vimeo.com"}

Hostnames == SeqsUpTo(HostFragments, MaxHostFragments)

Pathnames == {<<"/">>, <<"/", "abc">>, <<"/", "watch">>}

VParams == {Null, Str(<<>>), Str(<<"xyz">>)}

Unparsable ==
    [parsable |-> FALSE, hostname |-> <<>>, pathname |-> <<>>, v |-> Null]

Urls ==
    {Unparsable}
        \cup [parsable : {TRUE}, hostname : Hostnames, pathname : Pathnames,
              v : VParams]

UrlInit ==
    /\ segInput \in Urls
    /\ segOutput = [stage |-> "input", calls |-> 0]
    /\ ComponentIdle

\* one more call of getVideoId(url) and isYouTubeUrl(url); the results of
\* the call before are kept for comparison
Classify ==
    /\ segOutput.stage \in {"input", "classified"}
    /\ segOutput.calls < MaxCalls
    /\ segOutput' =
          [stage     |-> "classified",
           calls     |-> segOutput.calls + 1,
           videoId   |-> getVideoId(segInput),
           isYouTube |-> isYouTubeUrl(segInput),
           previous  |-> IF segOutput.stage = "classified"
                         THEN <<segOutput.videoId, segOutput.isYouTube>>
                         ELSE <<getVideoId(segInput), isYouTubeUrl(segInput)>>]
    /\ UNCHANGED <<segInput, componentVars>>

UrlNext == Classify

SpecUrl == UrlInit /\ [][UrlNext]_vars

-----------------------------------------------------------------------------
(* Claims on the URL classification (SpecUrl)                              *)

\* C20: getVideoId and isYouTubeUrl give the same result on every call for
\* the same url and always return a value; getVideoId returns null for an
\* unparsable url or a non-YouTube host, the path after the leading slash
\* for a youtu.be host and the value of the v query parameter otherwise;
\* whenever getVideoId(url) is non-null, isYouTubeUrl(url) is true.
C20_UrlClassification ==
    (segOutput.stage = "classified") =>
        LET u       == segInput
            short   == u.parsable /\ Includes(u.hostname, "youtu.be")
            long    == u.parsable /\ Includes(u.hostname, "youtube.com")
            videoId == segOutput.videoId
        IN  /\ <<videoId, segOutput.isYouTube>> = segOutput.previous
            /\ segOutput.isYouTube \in BOOLEAN
            /\ videoId.isNull \in BOOLEAN
            /\ (~u.parsable \/ (~short /\ ~long)) => videoId = Null
            /\ short => videoId = Str(Tail(u.pathname))
            /\ (long /\ ~short) => videoId = u.v
            /\ ~videoId.isNull => segOutput.isYouTube

C20_Witness ==
    /\ segOutput.stage = "classified"
    /\ segOutput.calls = 2
    /\ segInput.hostname = <<"youtu.be">>
    /\ segOutput.videoId = Str(<<"abc">>)
    /\ segOutput.isYouTube

-----------------------------------------------------------------------------
(* MediaFrame: clicks on the rendered transcript                           *)

\* const handleTranscriptClick = (offsetMs) => ytRef.current?...seekTo(
\* offsetMs / 1000, true): the seek commands it sends to the player
handleTranscriptClick(offsetMs, ytRefSet) ==
    IF ytRefSet THEN <<Norm(offsetMs, 1000 * TimeScale)>> ELSE <<>>

\* the click handlers bound to the element of a transcript unit or to one of
\* its ancestors in the rendered transcript: the paragraph div, the sentence
\* span and the text span carry key, className and data-paragraph-index
\* only, and handleTranscriptClick is referenced nowhere in the JSX
ClickHandlers(unit) == <<>>

\* the browser dispatches a click on the element of unit: every bound
\* handler runs; the seek commands sent
RECURSIVE DispatchClick(_, _, _)
DispatchClick(handlers, unit, ytRefSet) ==
    IF handlers = <<>> THEN <<>>
    ELSE handleTranscriptClick(unit.startOffset, ytRefSet)
             \o DispatchClick(Tail(handlers), unit, ytRefSet)

\* the units displayed for a paragraph list: every paragraph and every
\* sentence of it
DisplayedUnits(paragraphs) ==
    {[kind |-> "paragraph", startOffset |-> paragraphs[p].startOffset] :
        p \in 1..Len(paragraphs)}
        \cup UNION {{[kind        |-> "sentence",
                      startOffset |-> paragraphs[p].sentences[k].startOffset] :
                        k \in 1..Len(paragraphs[p].sentences)} :
                    p \in 1..Len(paragraphs)}

-----------------------------------------------------------------------------
(* SpecClick: clicks on the units of a rendered transcript                 *)

MaxClicks == 2

ClickTranscripts == CompTranscripts \cup ScrollTranscripts

ClickInit ==
    /\ segInput \in [lines : ClickTranscripts, ytRefSet : BOOLEAN]
    /\ segOutput = [stage      |-> "rendered",
                    paragraphs |-> groupTranscriptIntoParagraphs(segInput.lines),
                    clicks     |-> 0,
                    seeks      |-> <<>>]
    /\ ComponentIdle

\* the user clicks a displayed transcript unit
ClickUnit ==
    /\ segOutput.stage \in {"rendered", "clicked"}
    /\ segOutput.clicks < MaxClicks
    /\ \E unit \in DisplayedUnits(segOutput.paragraphs) :
          segOutput' =
              [stage      |-> "clicked",
               paragraphs |-> segOutput.paragraphs,
               clicks     |-> segOutput.clicks + 1,
               offsetMs   |-> unit.startOffset,
               before     |-> segOutput.seeks,
               seeks      |-> segOutput.seeks
                                \o DispatchClick(ClickHandlers(unit), unit,
                                                 segInput.ytRefSet)]
    /\ UNCHANGED <<segInput, componentVars>>

ClickNext == ClickUnit

SpecClick == ClickInit /\ [][ClickNext]_vars

\* C21 as stated: clicking a displayed transcript unit whose offset is
\* offsetMs sends exactly one seek command seekTo(offsetMs / 1000) to the
\* player of the component.
C21_Original ==
    (segOutput.stage = "clicked" /\ segInput.ytRefSet) =>
        segOutput.seeks =
            Append(segOutput.before, Norm(segOutput.offsetMs, 1000 * TimeScale))

-----------------------------------------------------------------------------
(* MediaNotesPlugin (main.tsx): the player of one markdown view. The       *)
(* plugin state is a record: the note's frontmatter, the player           *)
(* containers of the view (their data-player-id, in document order), the   *)
(* players registry, settings.mediaData in memory and on disk, and the     *)
(* promises in flight. A link is a url with its t query parameter; a       *)
(* frontmatter property that is absent is NoLink.                          *)

NoLink ==
    [present |-> FALSE, parsable |-> FALSE, hostname |-> <<>>,
     pathname |-> <<>>, v |-> Null, t |-> Null]

\* a string or null used as a condition
Truthy(text) == ~text.isNull /\ text.value # <<>>

\* frontmatter["media_link"] || frontmatter["media"]
getMediaLinkFromFrontmatter(frontmatter) ==
    IF frontmatter.media_link.present
    THEN frontmatter.media_link
    ELSE frontmatter.media

\* the documented property is read instead
getMediaLinkFromFrontmatterPreviewLink(frontmatter) ==
    frontmatter.preview_link

\* this.players[playerId], as the set of entries with that id
PlayersWithId(players, playerId) == {p \in players : p.id = playerId}

\* containerEl.querySelector("." + mediaNotesContainerClass): the
\* data-player-id of the first player container of the view, 0 for null
querySelector(st) ==
    IF st.containers = <<>> THEN 0 ELSE Head(st.containers)

\* the element stays in the document
RemoveElementNever(containers, playerId) == containers

\* existingPlayerComponent.remove() / div.remove()
RemoveElement(containers, playerId) ==
    SelectSeq(containers, LAMBDA id : id # playerId)

\* getActiveViewYoutubePlayer(view): the registry entries of the container
\* of the view (none when there is no container or no entry)
getActiveViewYoutubePlayer(st) ==
    IF querySelector(st) = 0 THEN {}
    ELSE PlayersWithId(st.players, querySelector(st))

\* savePlayerTimestamp(playerId) up to the getCurrentTime() call: the
\* plugin state with the promise in flight, which remembers the player's
\* link
savePlayerTimestamp(st, playerId) ==
    LET found == PlayersWithId(st.players, playerId)
    IN  IF found = {} THEN st
        ELSE LET player == CHOOSE p \in found : TRUE
             IN  IF isYouTubeUrl(player.mediaLink) /\ player.ytRefSet
                 THEN [st EXCEPT
                          !.pendingTimes = Append(@, player.mediaLink),
                          !.savesStarted = @ + 1]
                 ELSE st

\* (mediaId && settings.mediaData[mediaId]) || settings.mediaData[mediaLink]:
\* mediaData is keyed by video ids only
MediaDataFor(mediaLink, mediaData) ==
    LET mediaId == getVideoId(mediaLink)
    IN  IF Truthy(mediaId) /\ mediaId.value \in DOMAIN mediaData
        THEN mediaData[mediaId.value]
        ELSE Undefined

\* Math.round of a non-negative rational
MathRound(x) == Floor(RAdd(x, Norm(1, 2)))

\* the link's t parameter is preferred to the saved position
InitSecondsLinkFirst(mediaLink, mediaData) ==
    IF ~isYouTubeUrl(mediaLink) THEN R(0)
    ELSE LET saved       == MediaDataFor(mediaLink, mediaData)
             mediaLinkTs == mediaLink.t
         IN  IF Truthy(mediaLinkTs) THEN R(Number(mediaLinkTs.value))
             ELSE IF saved.defined THEN saved.value
             ELSE R(0)

\* initSeconds = mediaData?.lastTimestampSeconds
\*                   ?? (mediaLinkTs ? Number(mediaLinkTs) : 0)
InitSeconds(mediaLink, mediaData) ==
    IF ~isYouTubeUrl(mediaLink) THEN R(0)
    ELSE LET saved       == MediaDataFor(mediaLink, mediaData)
             mediaLinkTs == mediaLink.t
         IN  IF saved.defined THEN saved.value
             ELSE IF Truthy(mediaLinkTs) THEN R(Number(mediaLinkTs.value))
             ELSE R(0)

\* mediaLinkTs && Number(initSeconds) === Number(mediaLinkTs)
Autoplay(mediaLink, mediaData) ==
    /\ isYouTubeUrl(mediaLink)
    /\ Truthy(mediaLink.t)
    /\ InitSeconds(mediaLink, mediaData) = R(Number(mediaLink.t.value))

NoOperation == [op |-> "none"]

\* renderPlayerInView(markdownView): the plugin state after the call
renderPlayerInView(st) ==
    LET mediaLink == getMediaLinkFromFrontmatter(st.frontmatter)
        existing  == querySelector(st)
    IN  IF mediaLink.present
        THEN IF /\ existing # 0
                /\ \E player \in PlayersWithId(st.players, existing) :
                      player.mediaLink = mediaLink
             THEN [st EXCEPT !.last = [op |-> "render", outcome |-> "kept"]]
             ELSE LET removed ==
                          IF existing # 0
                          THEN [savePlayerTimestamp(st, existing) EXCEPT
                                   !.containers = RemoveElement(@, existing),
                                   !.players = st.players
                                                 \ PlayersWithId(st.players, existing)]
                          ELSE st
                      uniqueId == st.created + 1
                  IN  IF ~st.sourceView
                      THEN [removed EXCEPT
                               !.created = uniqueId,
                               !.last = [op |-> "render", outcome |-> "detached"]]
                      ELSE [removed EXCEPT
                               !.created = uniqueId,
                               !.containers = <<uniqueId>> \o @,
                               !.players =
                                   removed.players
                                     \cup {[id        |-> uniqueId,
                                            mediaLink |-> mediaLink,
                                            ytRefSet  |-> FALSE]},
                               !.last =
                                   [op          |-> "render",
                                    outcome     |-> "mounted",
                                    mediaLink   |-> mediaLink,
                                    initSeconds |->
                                        MathRound(InitSeconds(mediaLink, st.mediaData)),
                                    autoplay    |-> Autoplay(mediaLink, st.mediaData)]]
        ELSE IF existing # 0
             THEN [savePlayerTimestamp(st, existing) EXCEPT
                      !.containers = RemoveElement(@, existing),
                      !.players = st.players \ PlayersWithId(st.players, existing),
                      !.last = [op |-> "render", outcome |-> "cleanup"]]
             ELSE [st EXCEPT !.last = [op |-> "render", outcome |-> "none"]]

\* handleTimestampClick(timestamp): the seeks sent, the actions emitted and
\* the value returned
handleTimestampClick(st, activeView, timestamp) ==
    LET found   == getActiveViewYoutubePlayer(st)
        nothing == [op |-> "timestampClick", activeView |-> activeView,
                    timestamp |-> timestamp,
                    seeks |-> <<>>, emitted |-> <<>>, result |-> "undefined"]
    IN  IF ~activeView \/ found = {} THEN nothing
        ELSE LET player == CHOOSE p \in found : TRUE
             IN  IF ~isYouTubeUrl(player.mediaLink) THEN nothing
                 ELSE [op         |-> "timestampClick",
                       activeView |-> activeView,
                       timestamp  |-> timestamp,
                       seeks      |-> IF player.ytRefSet
                                      THEN <<convertTimestampToSeconds(timestamp)>>
                                      ELSE <<>>,
                       emitted    |-> <<"timestampClick">>,
                       result     |-> "true"]

\* MediaFrame renders a YouTube component, which sets ytRef.current, only
\* for a YouTube link with a video id
RendersYouTube(mediaLink) ==
    isYouTubeUrl(mediaLink) /\ Truthy(getVideoId(mediaLink))

-----------------------------------------------------------------------------
(* SpecPlugin: one markdown view whose note is edited, with the plugin's   *)
(* event handlers, the React commit of a rendered player and the promises  *)
(* of savePlayerTimestamp resolving in any order                           *)

MaxRenders == 2

MaxSaves == 1

VideoIds == {<<"abc">>}

\* results of getCurrentTime(), in seconds
PlayTimes == {R(0), Norm(61, 2)}

LinkTimes == {Null, Str(<<"0">>), Str(<<"3", "0">>)}

WatchLink(t) ==
    [present |-> TRUE, parsable |-> TRUE, hostname |-> <<"www.", "youtube.com">>,
     pathname |-> <<"/", "watch">>, v |-> Str(<<"abc">>), t |-> t]

\* a YouTube url without a video id
ShortsLink ==
    [present |-> TRUE, parsable |-> TRUE, hostname |-> <<"www.", "youtube.com">>,
     pathname |-> <<"/", "shorts">>, v |-> Null, t |-> Str(<<"3", "0">>)]

WebLink ==
    [present |-> TRUE, parsable |-> TRUE, hostname |-> <<"vimeo.com">>,
     pathname |-> <<"/", "abc">>, v |-> Null, t |-> Str(<<"3", "0">>)]

PluginLinks == {WatchLink(t) : t \in LinkTimes} \cup {ShortsLink, WebLink}

Frontmatter(preview_link, media_link, media) ==
    [preview_link |-> preview_link, media_link |-> media_link, media |-> media]

\* one link under each key, and media_link together with media
Frontmatters ==
    {Frontmatter(NoLink, NoLink, NoLink),
     Frontmatter(WatchLink(Null), NoLink, NoLink),
     Frontmatter(NoLink, NoLink, WebLink),
     Frontmatter(NoLink, WatchLink(Null), WebLink)}
    \cup {Frontmatter(NoLink, link, NoLink) : link \in PluginLinks}

MediaDatas == [VideoIds -> {Undefined} \cup {Defined(T) : T \in {R(30), Norm(152, 5)}}]

ClickedTimestamps == {<<"1", ":", "0", "2">>}

PluginInit ==
    /\ segInput \in [sourceView : BOOLEAN, mediaData : MediaDatas]
    /\ segOutput =
          [stage         |-> "plugin",
           sourceView    |-> segInput.sourceView,
           frontmatter   |-> [preview_link |-> NoLink, media_link |-> NoLink,
                              media |-> NoLink],
           containers    |-> <<>>,
           players       |-> {},
           created       |-> 0,
           mediaData     |-> segInput.mediaData,
           disk          |-> segInput.mediaData,
           pendingTimes  |-> <<>>,
           savesStarted  |-> 0,
           pendingWrites |-> <<>>,
           pendingLoads  |-> <<>>,
           last          |-> NoOperation]
    /\ ComponentIdle

PluginStep(st) ==
    /\ segOutput' = st
    /\ UNCHANGED <<segInput, componentVars>>

Bounded == segOutput.created < MaxRenders /\ segOutput.savesStarted < MaxSaves

\* metadataCache "changed": the note's frontmatter was edited; the handler
\* renders when the frontmatter has a media link and a markdown view is
\* active
MetadataChanged ==
    /\ segOutput.stage = "plugin"
    /\ Bounded
    /\ \E frontmatter \in Frontmatters, activeView \in BOOLEAN :
          LET st == [segOutput EXCEPT !.frontmatter = frontmatter,
                                      !.last = NoOperation]
          IN  IF getMediaLinkFromFrontmatter(frontmatter).present /\ activeView
              THEN PluginStep(renderPlayerInView(st))
              ELSE PluginStep(st)

RECURSIVE SaveAll(_, _)
SaveAll(st, ids) ==
    IF ids = {} THEN st
    ELSE LET id == CHOOSE i \in ids : TRUE
         IN  SaveAll(savePlayerTimestamp(st, id), ids \ {id})

\* workspace "layout-change": without an active markdown view every player
\* is saved, else the active view is rendered
LayoutChange ==
    /\ segOutput.stage = "plugin"
    /\ Bounded
    /\ \E activeView \in BOOLEAN :
          IF ~activeView
          THEN PluginStep(SaveAll([segOutput EXCEPT !.last = NoOperation],
                                  {p.id : p \in segOutput.players}))
          ELSE PluginStep(renderPlayerInView(segOutput))

\* React commits the render of a registered player
ReactCommit ==
    /\ segOutput.stage = "plugin"
    /\ \E player \in segOutput.players :
          /\ ~player.ytRefSet
          /\ RendersYouTube(player.mediaLink)
          /\ PluginStep([segOutput EXCEPT
                            !.players = (@ \ {player})
                                          \cup {[player EXCEPT !.ytRefSet = TRUE]}])

\* the user clicks a timestamp link of the note
TimestampClick ==
    /\ segOutput.stage = "plugin"
    /\ \E activeView \in BOOLEAN, timestamp \in ClickedTimestamps :
          PluginStep([segOutput EXCEPT
                         !.last = handleTimestampClick(segOutput, activeView,
                                                       timestamp)])

RemoveAt(seq, k) == SubSeq(seq, 1, k - 1) \o SubSeq(seq, k + 1, Len(seq))

\* a getCurrentTime() promise of savePlayerTimestamp resolves: the callback
\* records the timestamp and calls saveSettings() and loadSettings()
\* without awaiting them
TimeResolved ==
    /\ segOutput.stage = "plugin"
    /\ \E k \in 1..Len(segOutput.pendingTimes), timestamp \in PlayTimes :
          LET mediaId == getVideoId(segOutput.pendingTimes[k])
              popped  == [segOutput EXCEPT !.pendingTimes = RemoveAt(@, k)]
          IN  IF ~Truthy(mediaId) THEN PluginStep(popped)
              ELSE LET mediaData ==
                           [x \in DOMAIN segOutput.mediaData \cup {mediaId.value} |->
                               IF x = mediaId.value THEN Defined(timestamp)
                               ELSE segOutput.mediaData[x]]
                   IN  PluginStep([popped EXCEPT
                                      !.mediaData     = mediaData,
                                      !.pendingWrites = Append(@, mediaData),
                                      !.pendingLoads  =
                                          Append(@, [read |-> FALSE,
                                                     data |-> mediaData])])

\* saveData(settings) of saveSettings() reaches the disk
WriteDisk ==
    /\ segOutput.stage = "plugin"
    /\ segOutput.pendingWrites # <<>>
    /\ PluginStep([segOutput EXCEPT !.disk = Head(segOutput.pendingWrites),
                                    !.pendingWrites = Tail(@)])

\* loadData() of loadSettings() reads the disk
ReadDisk ==
    /\ segOutput.stage = "plugin"
    /\ \E k \in 1..Len(segOutput.pendingLoads) :
          /\ ~segOutput.pendingLoads[k].read
          /\ PluginStep([segOutput EXCEPT
                            !.pendingLoads[k] = [read |-> TRUE,
                                                 data |-> segOutput.disk]])

\* loadSettings() resumes: this.settings = Object.assign({}, DEFAULT_SETTINGS,
\* data)
LoadApply ==
    /\ segOutput.stage = "plugin"
    /\ \E k \in 1..Len(segOutput.pendingLoads) :
          /\ segOutput.pendingLoads[k].read
          /\ PluginStep([segOutput EXCEPT
                            !.mediaData    = segOutput.pendingLoads[k].data,
                            !.pendingLoads = RemoveAt(@, k)])

PluginNext ==
    \/ MetadataChanged
    \/ LayoutChange
    \/ ReactCommit
    \/ TimestampClick
    \/ TimeResolved
    \/ WriteDisk
    \/ ReadDisk
    \/ LoadApply

SpecPlugin == PluginInit /\ [][PluginNext]_vars

-----------------------------------------------------------------------------
(* Claims on the plugin (SpecPlugin)                                       *)

\* C22 as stated: after renderPlayerInView ran for the view, a note whose
\* frontmatter has a preview_link property holding a supported URL has a
\* player container in the view and a registered player for that link, and
\* a note without that property has no player.
C22_Original ==
    (segOutput.stage = "plugin" /\ segOutput.sourceView
        /\ segOutput.last.op = "render") =>
        IF segOutput.frontmatter.preview_link.present
        THEN /\ querySelector(segOutput) # 0
             /\ \E player \in segOutput.players :
                   /\ player.id = querySelector(segOutput)
                   /\ player.mediaLink = segOutput.frontmatter.preview_link
        ELSE querySelector(segOutput) = 0 /\ segOutput.players = {}

\* C23 as stated: a click on a timestamp link with text T, when the active
\* markdown view has a registered YouTube player, sends
\* seekTo(convertTimestampToSeconds(T)) to that player, emits a
\* timestampClick action and returns true; when there is no active view, no
\* registered player, or the player's link is not a YouTube URL, no seek is
\* sent, no action is emitted and the result is undefined.
C23_Original ==
    (segOutput.stage = "plugin" /\ segOutput.last.op = "timestampClick") =>
        LET click      == segOutput.last
            registered == {player \in segOutput.players :
                              player.id = querySelector(segOutput)}
            youTube    == /\ click.activeView
                          /\ \E player \in registered :
                                isYouTubeUrl(player.mediaLink)
        IN  IF youTube
            THEN /\ click.seeks = <<convertTimestampToSeconds(click.timestamp)>>
                 /\ click.emitted = <<"timestampClick">>
                 /\ click.result = "true"
            ELSE /\ click.seeks = <<>>
                 /\ click.emitted = <<>>
                 /\ click.result = "undefined"

\* the integer nearest to a non-negative rational, halves upwards
Rounded(x) ==
    CHOOSE k \in 0..(Floor(x) + 1) :
        RLe(Norm(2 * k - 1, 2), x) /\ RLt(x, Norm(2 * k + 1, 2))

-----------------------------------------------------------------------------
(* SpecFollow: playback followed through the sentences of a paragraph and  *)
(* into the next one, with a transcript refetch in between, in a container *)
(* whose content overflows                                                 *)

\* playback positions in sentence 1 of paragraph 0, in sentence 1 of
\* paragraph 1 and after the last paragraph
FollowTimes == {k * (TimeScale \div 2) : k \in {3, 9, 27}}

FollowLayout == [containerHeight |-> 101, paragraphHeight |-> 107]

FollowInit ==
    /\ SegIdle
    /\ Mounted(FollowLayout)

FollowNext ==
    \/ FetchResolve(ScrollTranscripts)
    \/ LanguageChange
    \/ ShowTimestamp
    \/ TimestampResolved(FollowTimes)
    \/ Frame(FrameDeltas)

SpecFollow == FollowInit /\ [][FollowNext]_vars

-----------------------------------------------------------------------------
(* Claims on the locator and the auto-scroll effect (SpecFollow)           *)

\* C25: a position update whose computed paragraph and sentence index both
\* equal the stored ones leaves the active location unchanged and starts no
\* scroll animation; the auto-scroll effect runs, and an animation starts,
\* only in a step that changes the paragraph index, so a change of the
\* sentence index alone never starts one.
C25_ShortCircuit ==
    [][ /\ (/\ Len(transcriptParagraphs') > 0
            /\ NewParagraphIndex(transcriptParagraphs',
                                 CurrentTimeMs(currentTimestamp'))
                 = currentParagraphIndex
            /\ NewSentenceIndex(transcriptParagraphs',
                                CurrentTimeMs(currentTimestamp'))
                 = currentSentenceIndex)
           => (/\ currentParagraphIndex' = currentParagraphIndex
               /\ currentSentenceIndex' = currentSentenceIndex
               /\ animsStarted' = animsStarted
               /\ ~lastEffect'.ran)
        /\ (currentParagraphIndex' = currentParagraphIndex)
           => (/\ animsStarted' = animsStarted
               /\ ~lastEffect'.ran
               /\ Len(frameQueue') <= Len(frameQueue))
      ]_vars

\* the last step was a timestamp update inside paragraph 0 after the
\* animation toward paragraph 0 had been started: no effect ran
C25_Witness ==
    /\ currentParagraphIndex = 0
    /\ currentSentenceIndex = 1
    /\ currentTimestamp = 3 * (TimeScale \div 2)
    /\ animsStarted = 1
    /\ Len(frameQueue) = 1
    /\ frameQueue[1].elapsed = NotStarted
    /\ ~lastEffect.ran
    /\ pendingQueries = 0
    /\ fetchesStarted = 1

-----------------------------------------------------------------------------
(* Claims on malformed caption lines (SpecSegment)                         *)

\* C26 as stated: segmentation never divides by zero (a line for which a
\* division is evaluated has a sentence count >= 1); a caption line with
\* duration 0 and a non-blank text is a single sentence spanning
\* [offset, offset]; every other line is segmented normally, one sentence
\* per sentence of its text.
C26_Original ==
    Grouped =>
        \A l \in 1..Len(segInput) :
            LET S     == SentencesOfLine(l)
                count == Len(splitIntoSentences(segInput[l].text))
                O     == segInput[l].offset
            IN  /\ Len(S) >= 1 => count >= 1
                /\ IF segInput[l].duration = 0
                   THEN count >= 1 =>
                          /\ Len(S) = 1
                          /\ S[1].startOffset = O
                          /\ S[1].endOffset = O
                   ELSE Len(S) = count

-----------------------------------------------------------------------------
(* Claims on the auto-scroll effect when nothing can scroll (SpecScroll)   *)

\* C27: whenever the height of the transcript content does not exceed the
\* visible height of the container at the moment the active paragraph
\* changes, no animation is started and the scroll offset is unchanged.
C27_NoOverflowSkip ==
    [][(/\ currentParagraphIndex' # currentParagraphIndex
        /\ Len(transcriptParagraphs') * layout.paragraphHeight
              <= layout.containerHeight)
          => (/\ animsStarted' = animsStarted
              /\ frameQueue' = frameQueue
              /\ scrollTop' = scrollTop)
    ]_vars

\* the effect ran for paragraph 2 of a transcript that fits its container
C27_Witness ==
    /\ lastEffect.ran
    /\ lastEffect.found
    /\ lastEffect.paragraphIndex = 2
    /\ ~lastEffect.overflow
    /\ Len(transcriptParagraphs) * layout.paragraphHeight <= layout.containerHeight
    /\ animsStarted = 0
    /\ scrollTop = R(0)

-----------------------------------------------------------------------------
(* Claims on a missing scroll target (SpecFollow)                          *)

\* the element of paragraph i is in the rendered structure, as the render
\* states it: the content is shown when not loading, one element per
\* paragraph
InRenderedStructure(i, paragraphs, loading) ==
    ~loading /\ i >= 0 /\ i < Len(paragraphs)

\* C28: if the element of the active paragraph is not in the rendered
\* structure when the paragraph index changes (the transcript is hidden
\* while loading, or no paragraph is active), the scroll step does nothing:
\* scroll offset unchanged, no frame requested; and every change of the
\* paragraph index runs the scroll step again, for the paragraph active
\* then, which computes a target whenever the element is present.
C28_MissingTarget ==
    [][(currentParagraphIndex' # currentParagraphIndex) =>
          /\ lastEffect'.ran
          /\ lastEffect'.paragraphIndex = currentParagraphIndex'
          /\ IF InRenderedStructure(currentParagraphIndex',
                                    transcriptParagraphs', transcriptLoading')
             THEN lastEffect'.found
             ELSE /\ ~lastEffect'.animate
                  /\ scrollTop' = scrollTop
                  /\ frameQueue' = frameQueue
                  /\ animsStarted' = animsStarted
    ]_vars

\* paragraph 1 became active while the refetch was loading: the step did
\* nothing, although the animation toward paragraph 0 had run before
C28_Witness ==
    /\ transcriptLoading
    /\ lastEffect.ran
    /\ lastEffect.paragraphIndex = 1
    /\ currentParagraphIndex = 1
    /\ ~lastEffect.animate
    /\ animsStarted = 1
    /\ Len(transcriptParagraphs) = 4

-----------------------------------------------------------------------------
(* SpecAnimate: playback moving between paragraphs 0 and 1 of an           *)
(* overflowing transcript, with display frames that keep coming: the       *)
(* browser runs the requested animation frame callbacks at its next        *)
(* repaint, so a pending callback is not postponed for ever                *)

AnimateTimes == {k * (TimeScale \div 2) : k \in {3, 9}}

AnimateNext ==
    \/ FetchResolve(ScrollTranscripts)
    \/ ShowTimestamp
    \/ TimestampResolved(AnimateTimes)
    \/ Frame(FrameDeltas)

SpecAnimate ==
    FollowInit /\ [][AnimateNext]_vars /\ WF_vars(Frame(FrameDeltas))

\* a frame callback of the animation with this id is pending
Pending(id) == \E q \in 1..Len(frameQueue) : frameQueue[q].id = id

\* the ticks of the last frame and the pending callbacks are those of the
\* state machine {Idle, Animating}
AnimatorStep ==
    /\ \A k \in 1..Len(lastFrame) :
          /\ lastFrame[k].requested = RLt(lastFrame[k].progress, R(1))
          /\ lastFrame[k].requested = Pending(lastFrame[k].id)
    /\ \A q \in 1..Len(frameQueue) :
          /\ \/ frameQueue[q].elapsed = NotStarted
             \/ /\ frameQueue[q].elapsed >= 0
                /\ frameQueue[q].elapsed < AnimDuration
          /\ \A r \in 1..Len(frameQueue) :
                frameQueue[r].id = frameQueue[q].id => r = q

\* C29: a frame tick of an animation with progress < 1 requests exactly one
\* further frame and a tick with progress = 1 requests none; a pending
\* callback has not started or has run for less than the 300 ms duration,
\* so the tick that reaches 300 ms ends the animation; under fair frame
\* ticks with advancing time every pending callback chain ends: a state
\* with no pending frame callback is reached.
C29_SelfTermination ==
    /\ []AnimatorStep
    /\ (frameQueue # <<>>) ~> (frameQueue = <<>>)

\* the second animation has ended: its last tick requested no frame and
\* nothing is pending
C29_Witness ==
    /\ animsStarted = 2
    /\ Len(lastFrame) = 1
    /\ lastFrame[1].id = 2
    /\ lastFrame[1].progress = R(1)
    /\ ~lastFrame[1].requested
    /\ frameQueue = <<>>

-----------------------------------------------------------------------------
(* MediaNotesPlugin: the Insert Timestamp command. A template or snippet   *)
(* is a sequence of tokens: literal text, the placeholders {ts} and        *)
(* {link}, the two characters backslash-n, and what replaces them.         *)

Text(chars) == [kind |-> "text", value |-> chars]

TsPlaceholder == [kind |-> "placeholder", value |-> <<"{ts}">>]

LinkPlaceholder == [kind |-> "placeholder", value |-> <<"{link}">>]

EscapedNewline == [kind |-> "escape", value |-> <<"\\", "n">>]

Newline == Text(<<"\n">>)

\* `${fixedVideoUrl}` after searchParams.set("t", t)
VideoUrlWithT(t) == [kind |-> "url", value |-> <<"t=">> \o t]

\* String.prototype.replace(placeholder, replacement): the first occurrence
RECURSIVE ReplaceFirst(_, _, _)
ReplaceFirst(snippet, placeholder, replacement) ==
    IF snippet = <<>> THEN <<>>
    ELSE IF Head(snippet) = placeholder
         THEN <<replacement>> \o Tail(snippet)
         ELSE <<Head(snippet)>>
                  \o ReplaceFirst(Tail(snippet), placeholder, replacement)

\* .replace(/\\n/g, "\n"): every occurrence
ReplaceEscapedNewlines(snippet) ==
    [k \in 1..Len(snippet) |->
        IF snippet[k] = EscapedNewline THEN Newline ELSE snippet[k]]

\* timestamp - offset >= 0 ? timestamp - offset : 0
OffsetTimestamp(timestamp, timestampOffsetSeconds) ==
    IF RLe(R(0), RSub(timestamp, R(timestampOffsetSeconds)))
    THEN RSub(timestamp, R(timestampOffsetSeconds))
    ELSE R(0)

NothingInserted == [inserted |-> FALSE, snippet |-> <<>>, paused |-> FALSE]

\* editorCallback of insert-media-timestamp. st is the plugin state of the
\* view; timestamp, videoUrl and playerState are what the player answers
\* (timestamp only when ytRef.current is set)
InsertMediaTimestamp(st, settings, timestamp, videoUrl, playerState) ==
    LET found == getActiveViewYoutubePlayer(st)
    IN  IF found = {} THEN NothingInserted
        ELSE LET player == CHOOSE p \in found : TRUE
             IN  IF ~isYouTubeUrl(player.mediaLink) THEN NothingInserted
                 ELSE IF ~player.ytRefSet \/ timestamp = R(0)
                      THEN NothingInserted
                      ELSE LET offsetTimestamp ==
                                   OffsetTimestamp(timestamp,
                                                   settings.timestampOffsetSeconds)
                               formattedTimestamp ==
                                   formatTimestamp(Defined(offsetTimestamp))
                               withTs ==
                                   ReplaceFirst(settings.timestampTemplate,
                                                TsPlaceholder,
                                                Text(formattedTimestamp))
                               withLink ==
                                   IF videoUrl
                                   THEN ReplaceFirst(
                                            withTs, LinkPlaceholder,
                                            VideoUrlWithT(NumberToString(
                                                Floor(offsetTimestamp))))
                                   ELSE withTs
                           IN  [inserted |-> TRUE,
                                snippet  |-> ReplaceEscapedNewlines(withLink),
                                paused   |-> settings.pauseOnTimestampInsert
                                               /\ playerState = 1]

-----------------------------------------------------------------------------
(* SpecInsert: the Insert Timestamp command run in a view with or without  *)
(* a player, at every playback time and setting of the input class         *)

MaxInserts == 1

InsertTimes == {R(0), Norm(7, 2), R(6), Norm(13, 2), R(65)}

InsertOffsets == {0, 6}

InsertTemplates ==
    { <<Text(<<"[">>), TsPlaceholder, Text(<<"](">>), LinkPlaceholder,
        Text(<<")">>), EscapedNewline>>,
      <<TsPlaceholder, EscapedNewline, TsPlaceholder, EscapedNewline>>,
      <<Text(<<"note">>)>> }

\* the view's player: none, or one registered for the link
ViewWith(mediaLink, ytRefSet) ==
    [containers |-> <<1>>,
     players   |-> {[id |-> 1, mediaLink |-> mediaLink, ytRefSet |-> ytRefSet]}]

InsertViews ==
    { [containers |-> <<>>, players |-> {}],
      ViewWith(WatchLink(Null), TRUE),
      ViewWith(WatchLink(Null), FALSE),
      ViewWith(ShortsLink, FALSE),
      ViewWith(WebLink, FALSE) }

InsertInit ==
    /\ segInput \in [view      : InsertViews,
                     settings  : [timestampOffsetSeconds : InsertOffsets,
                                  timestampTemplate      : InsertTemplates,
                                  pauseOnTimestampInsert : BOOLEAN],
                     timestamp : InsertTimes,
                     videoUrl  : BOOLEAN,
                     playerState : {1, 2}]
    /\ segOutput = [stage |-> "input", runs |-> 0, editor |-> <<>>]
    /\ ComponentIdle

\* the user runs the command: the snippet replaces the (empty) selection
InsertTimestamp ==
    /\ segOutput.stage \in {"input", "inserted"}
    /\ segOutput.runs < MaxInserts
    /\ LET r == InsertMediaTimestamp(segInput.view, segInput.settings,
                                     segInput.timestamp, segInput.videoUrl,
                                     segInput.playerState)
       IN  segOutput' = [stage  |-> "inserted",
                         runs   |-> segOutput.runs + 1,
                         before |-> segOutput.editor,
                         editor |-> segOutput.editor \o r.snippet,
                         result |-> r]
    /\ UNCHANGED <<segInput, componentVars>>

InsertNext == InsertTimestamp

SpecInsert == InsertInit /\ [][InsertNext]_vars

\* C30 as stated: for every playback time t >= 0 of the view's YouTube
\* player and offset o the command inserts the template with {ts} replaced
\* by formatTimestamp(max(0, t - o)) and {link} by the video URL whose t
\* parameter is floor(max(0, t - o)); the inserted time is never negative;
\* without a YouTube player in the view nothing is inserted.
C30_Original ==
    (segOutput.stage = "inserted") =>
        LET view     == segInput.view
            youTube  == \E player \in view.players :
                           /\ player.id = querySelector(view)
                           /\ isYouTubeUrl(player.mediaLink)
                           /\ player.ytRefSet
            t        == segInput.timestamp
            o        == R(segInput.settings.timestampOffsetSeconds)
            time     == RMax(R(0), RSub(t, o))
            expected ==
                [k \in 1..Len(segInput.settings.timestampTemplate) |->
                    LET token == segInput.settings.timestampTemplate[k]
                        first == \A j \in 1..(k - 1) :
                                    segInput.settings.timestampTemplate[j] # token
                    IN  IF token = TsPlaceholder /\ first
                        THEN Text(formatTimestamp(Defined(time)))
                        ELSE IF token = LinkPlaceholder /\ first /\ segInput.videoUrl
                        THEN VideoUrlWithT(NumberToString(Floor(time)))
                        ELSE IF token = EscapedNewline THEN Newline
                        ELSE token]
        IN  IF youTube
            THEN /\ segOutput.result.inserted
                 /\ RLe(R(0), time)
                 /\ segOutput.editor = segOutput.before \o expected
            ELSE /\ ~segOutput.result.inserted
                 /\ segOutput.editor = segOutput.before

-----------------------------------------------------------------------------
(* MediaNotesPlugin: the seek and speed commands. A command answers with   *)
(* the calls it made on the player and the actions it emitted.             *)

NoCommand == [command |-> "none", seeks |-> <<>>, rates |-> <<>>, emitted |-> <<>>]

\* editorCallback of seek-forward (sign 1) and seek-backwards (sign -1);
\* currentTime is what getCurrentTime() answers when ytRef.current is set
SeekCommand(st, command, action, sign, seekSeconds, currentTime) ==
    LET found   == getActiveViewYoutubePlayer(st)
        nothing == [NoCommand EXCEPT !.command = command]
    IN  IF found = {} THEN nothing
        ELSE LET player == CHOOSE p \in found : TRUE
             IN  IF ~isYouTubeUrl(player.mediaLink) THEN nothing
                 ELSE IF ~player.ytRefSet \/ currentTime = R(0) THEN nothing
                 ELSE [command |-> command,
                       seeks   |-> <<RAdd(currentTime, R(sign * seekSeconds))>>,
                       rates   |-> <<>>,
                       emitted |-> <<action>>]

SeekForwardCommand(st, seekSeconds, currentTime) ==
    SeekCommand(st, "seek-forward", "seekForward", 1, seekSeconds, currentTime)

SeekBackwardsCommand(st, seekSeconds, currentTime) ==
    SeekCommand(st, "seek-backwards", "seekBackwards", -1, seekSeconds,
                currentTime)

\* playbackRates.indexOf(currentRate): the first index, from 0, or -1
IndexOf(playbackRates, currentRate) ==
    IF \E k \in 1..Len(playbackRates) : playbackRates[k] = currentRate
    THEN (CHOOSE k \in 1..Len(playbackRates) :
             /\ playbackRates[k] = currentRate
             /\ \A j \in 1..(k - 1) : playbackRates[j] # currentRate) - 1
    ELSE -1

\* the undefined of a rate
NoRate == [defined |-> FALSE, value |-> 0]

\* playbackRates[index]: undefined outside the list
RateAt(playbackRates, index) ==
    IF index >= 0 /\ index < Len(playbackRates)
    THEN Defined(playbackRates[index + 1])
    ELSE NoRate

NextRateIndexUpUnchecked(currentRateIndex, length) == currentRateIndex + 1

\* currentRateIndex + 1 < playbackRates.length ? currentRateIndex + 1
\*                                             : currentRateIndex
NextRateIndexUp(currentRateIndex, length) ==
    IF currentRateIndex + 1 < length THEN currentRateIndex + 1
    ELSE currentRateIndex

\* currentRateIndex - 1 >= 0 ? currentRateIndex - 1 : 0
NextRateIndexDown(currentRateIndex, length) ==
    IF currentRateIndex - 1 >= 0 THEN currentRateIndex - 1 ELSE 0

\* editorCallback of speed-up and slow-down; playbackRates and currentRate
\* are what the player answers
SpeedCommand(st, command, nextRateIndex, playbackRates, currentRate) ==
    LET found   == getActiveViewYoutubePlayer(st)
        nothing == [NoCommand EXCEPT !.command = command]
    IN  IF found = {} THEN nothing
        ELSE LET player == CHOOSE p \in found : TRUE
             IN  IF ~isYouTubeUrl(player.mediaLink) THEN nothing
                 ELSE IF ~player.ytRefSet THEN nothing
                 ELSE LET nextRate == RateAt(playbackRates, nextRateIndex)
                      IN  [command |-> command,
                           seeks   |-> <<>>,
                           rates   |-> <<nextRate>>,
                           emitted |-> <<"setSpeed">>]

SpeedUpCommand(st, playbackRates, currentRate) ==
    SpeedCommand(st, "speed-up",
                 NextRateIndexUp(IndexOf(playbackRates, currentRate),
                                 Len(playbackRates)),
                 playbackRates, currentRate)

SlowDownCommand(st, playbackRates, currentRate) ==
    SpeedCommand(st, "slow-down",
                 NextRateIndexDown(IndexOf(playbackRates, currentRate),
                                   Len(playbackRates)),
                 playbackRates, currentRate)

-----------------------------------------------------------------------------
(* SpecHotkeys: the seek and speed commands run in a view with or without  *)
(* a player. The player answers any playback time to getCurrentTime(), its *)
(* list of rates (slowest first, without repetition) to                    *)
(* getAvailablePlaybackRates() and, to getPlaybackRate(), the rate it      *)
(* plays at, which is in the list and which setPlaybackRate replaces.      *)

MaxCommands == 2

\* the "Rewind & fast forward seconds" slider: 1..60, 10 by default
SeekSecondsValues == {1, 10}

\* playback times in seconds
SeekTimes == {R(0), Norm(1, 2), R(5), R(65)}

\* rates in hundredths of the normal speed
RateLists == { <<100>>, <<25, 100, 200>> }

HotkeysInit ==
    /\ segInput \in [view          : InsertViews,
                     seekSeconds   : SeekSecondsValues,
                     playbackRates : RateLists]
    /\ \E k \in 1..3 :
          /\ k <= Len(segInput.playbackRates)
          /\ segOutput = [stage |-> "hotkeys", runs |-> 0,
                          rate  |-> segInput.playbackRates[k],
                          before |-> segInput.playbackRates[k],
                          time  |-> R(0),
                          last  |-> NoCommand]
    /\ ComponentIdle

\* the command has run; a setPlaybackRate(rate) call with a rate changes
\* the rate the player plays at
HotkeysStep(result, currentTime) ==
    /\ segOutput' = [segOutput EXCEPT
                        !.runs   = @ + 1,
                        !.time   = currentTime,
                        !.before = segOutput.rate,
                        !.rate   = IF result.rates # <<>> /\ result.rates[1].defined
                                   THEN result.rates[1].value
                                   ELSE @,
                        !.last   = result]
    /\ UNCHANGED <<segInput, componentVars>>

HotkeysReady == segOutput.stage = "hotkeys" /\ segOutput.runs < MaxCommands

SeekForward ==
    /\ HotkeysReady
    /\ \E currentTime \in SeekTimes :
          HotkeysStep(SeekForwardCommand(segInput.view, segInput.seekSeconds,
                                         currentTime),
                      currentTime)

SeekBackwards ==
    /\ HotkeysReady
    /\ \E currentTime \in SeekTimes :
          HotkeysStep(SeekBackwardsCommand(segInput.view, segInput.seekSeconds,
                                           currentTime),
                      currentTime)

SpeedUp ==
    /\ HotkeysReady
    /\ HotkeysStep(SpeedUpCommand(segInput.view, segInput.playbackRates,
                                  segOutput.rate),
                   segOutput.time)

SlowDown ==
    /\ HotkeysReady
    /\ HotkeysStep(SlowDownCommand(segInput.view, segInput.playbackRates,
                                   segOutput.rate),
                   segOutput.time)

HotkeysNext ==
    \/ SeekForward
    \/ SeekBackwards
    \/ SpeedUp
    \/ SlowDown

SpecHotkeys == HotkeysInit /\ [][HotkeysNext]_vars

-----------------------------------------------------------------------------
(* Claims on the seek and speed commands (SpecHotkeys)                     *)

\* the view's registered YouTube player with a mounted component
HotkeysPlayer ==
    \E player \in segInput.view.players :
        /\ player.id = querySelector(segInput.view)
        /\ isYouTubeUrl(player.mediaLink)
        /\ player.ytRefSet

\* C31 as stated: for every playback time t >= 0 of the view's YouTube
\* player Fast Forward sends seekTo(t + seekSeconds) and emits seekForward,
\* Rewind sends seekTo(t - seekSeconds) and emits seekBackwards; without a
\* registered YouTube player neither command seeks or emits.
C31_Original ==
    LET last == segOutput.last
        t    == segOutput.time
        s    == R(segInput.seekSeconds)
    IN  /\ (last.command = "seek-forward") =>
              IF HotkeysPlayer
              THEN last.seeks = <<RAdd(t, s)>> /\ last.emitted = <<"seekForward">>
              ELSE last.seeks = <<>> /\ last.emitted = <<>>
        /\ (last.command = "seek-backwards") =>
              IF HotkeysPlayer
              THEN last.seeks = <<RSub(t, s)>> /\ last.emitted = <<"seekBackwards">>
              ELSE last.seeks = <<>> /\ last.emitted = <<>>

\* the position, from 1, of a rate in a list without repetition
PositionOf(playbackRates, rate) ==
    CHOOSE k \in 1..Len(playbackRates) : playbackRates[k] = rate

\* C33: with a mounted YouTube player, Speed up sets the next higher entry
\* of the available rates, or the current rate again when it is the
\* highest, and Slow down the next lower entry, or the lowest again; the
\* rate set is a member of the list at most one position from the previous
\* rate, it is the rate emitted with setSpeed, and without such a player
\* no rate is set.
C33_SpeedStep ==
    LET last     == segOutput.last
        rates    == segInput.playbackRates
        previous == PositionOf(rates, segOutput.before)
    IN  (last.command \in {"speed-up", "slow-down"}) =>
           IF HotkeysPlayer
           THEN /\ last.emitted = <<"setSpeed">>
                /\ last.rates = <<Defined(segOutput.rate)>>
                /\ \E k \in 1..Len(rates) :
                      /\ rates[k] = segOutput.rate
                      /\ k - previous \in {-1, 0, 1}
                      /\ (last.command = "speed-up") =>
                            k = IF previous < Len(rates) THEN previous + 1
                                ELSE previous
                      /\ (last.command = "slow-down") =>
                            k = IF previous > 1 THEN previous - 1 ELSE 1
           ELSE /\ last.rates = <<>>
                /\ last.emitted = <<>>
                /\ segOutput.rate = segOutput.before

\* Speed up, twice, from the normal speed of the list 0.25, 1, 2: the rate
\* is 2 and stays 2
C33_Witness ==
    /\ HotkeysPlayer
    /\ segOutput.last.command = "speed-up"
    /\ segInput.playbackRates = <<25, 100, 200>>
    /\ segOutput.before = 200
    /\ segOutput.rate = 200
    /\ segOutput.runs = 2

-----------------------------------------------------------------------------
(* Claims on the player container lifecycle (SpecPlugin)                   *)

\* C32: a call of renderPlayerInView (a) changes nothing when the view's
\* container is registered for the frontmatter's link; (b) otherwise, with
\* a link, removes the old container, requests its timestamp save and
\* deletes its entry, and then, in a view with a .markdown-source-view
\* element, registers one new container under a fresh id; (c) without a
\* link removes the container, requests its save and deletes its entry;
\* after every call the view holds at most one player container.
C32_Lifecycle ==
    [][((MetadataChanged \/ LayoutChange) /\ segOutput'.last.op = "render") =>
          LET link  == getMediaLinkFromFrontmatter(segOutput'.frontmatter)
              old   == querySelector(segOutput)
              entry == PlayersWithId(segOutput.players, old)
              same  == old # 0 /\ \E player \in entry : player.mediaLink = link
              savedLinks == {player.mediaLink : player \in
                                {p \in entry : isYouTubeUrl(p.mediaLink)
                                                  /\ p.ytRefSet}}
          IN  /\ Len(segOutput'.containers) <= 1
              /\ segOutput'.mediaData = segOutput.mediaData
              /\ segOutput'.disk = segOutput.disk
              /\ IF link.present /\ same
                 THEN /\ segOutput'.containers = segOutput.containers
                      /\ segOutput'.players = segOutput.players
                      /\ segOutput'.created = segOutput.created
                      /\ segOutput'.pendingTimes = segOutput.pendingTimes
                      /\ segOutput'.pendingWrites = segOutput.pendingWrites
                      /\ segOutput'.pendingLoads = segOutput.pendingLoads
                 ELSE /\ \A k \in 1..Len(segOutput'.containers) :
                            segOutput'.containers[k] # old
                      /\ PlayersWithId(segOutput'.players, old) = {}
                      /\ IF savedLinks = {}
                         THEN segOutput'.pendingTimes = segOutput.pendingTimes
                         ELSE \E mediaLink \in savedLinks :
                                 segOutput'.pendingTimes =
                                     Append(segOutput.pendingTimes, mediaLink)
                      /\ IF link.present /\ segOutput.sourceView
                         THEN \E uniqueId \in 1..MaxRenders + 1 :
                                 /\ uniqueId # old
                                 /\ PlayersWithId(segOutput.players, uniqueId) = {}
                                 /\ segOutput'.containers = <<uniqueId>>
                                 /\ segOutput'.players =
                                        (segOutput.players \ entry)
                                          \cup {[id        |-> uniqueId,
                                                 mediaLink |-> link,
                                                 ytRefSet  |-> FALSE]}
                         ELSE /\ segOutput'.containers = <<>>
                              /\ segOutput'.players = segOutput.players \ entry
    ]_vars

\* the note's link was changed while a mounted YouTube player was shown:
\* the second container replaced the first, whose save is in flight
C32_Witness ==
    /\ segOutput.stage = "plugin"
    /\ segOutput.last.op = "render"
    /\ segOutput.last.outcome = "mounted"
    /\ segOutput.containers = <<2>>
    /\ {player.id : player \in segOutput.players} = {2}
    /\ segOutput.pendingTimes # <<>>

-----------------------------------------------------------------------------
(* Claims on the validity of the active location (Spec)                    *)

\* C34 as stated: after the position update has run for the current
\* transcript, also one that replaced an earlier transcript, paragraphIndex
\* is -1 or an index into the current paragraph list, sentenceIndex is -1 or
\* an index into that paragraph's sentences, and sentenceIndex >= 0 implies
\* paragraphIndex >= 0.
C34_Original ==
    mounted =>
        /\ currentParagraphIndex \in -1..(Len(transcriptParagraphs) - 1)
        /\ currentSentenceIndex >= 0 => currentParagraphIndex >= 0
        /\ currentParagraphIndex \in 0..(Len(transcriptParagraphs) - 1) =>
              currentSentenceIndex \in
                  -1..(Len(transcriptParagraphs[currentParagraphIndex + 1].sentences) - 1)
        /\ currentParagraphIndex = -1 => currentSentenceIndex = -1

-----------------------------------------------------------------------------
(* Claims on the locator's coverage (SpecSegment)                          *)

\* C35 as stated: for caption lines with non-negative offsets and durations
\* that may overlap or leave gaps, every paragraph's [startOffset,
\* endOffset] contains the intervals of all its sentences, and whenever
\* currentTimeMs lies within the inclusive interval of at least one
\* sentence the locator reports a paragraphIndex >= 0 and a
\* sentenceIndex >= 0.
C35_Original ==
    /\ Grouped =>
          \A p \in 1..Len(segOutput.paragraphs) :
              \A s \in 1..Len(segOutput.paragraphs[p].sentences) :
                  LET paragraph == segOutput.paragraphs[p]
                      sentence  == paragraph.sentences[s]
                  IN  /\ paragraph.startOffset <= sentence.startOffset
                      /\ sentence.endOffset <= paragraph.endOffset
    /\ (/\ segOutput.stage = "located"
        /\ \E s \in 1..Len(segOutput.sentences) :
              Within(segOutput.sentences[s], segOutput.currentTimeMs))
          => (segOutput.newParagraphIndex >= 0 /\ segOutput.newSentenceIndex >= 0)

-----------------------------------------------------------------------------
(* Claims on the number of polling timers (SpecTimer)                      *)

\* C36 as stated: after any sequence of player state notifications
\* (repeated playing notifications included) at most one position-polling
\* interval timer is active for the component, and the handle the component
\* remembers is the only active one.
C36_Original ==
    (mounted /\ attached) =>
        /\ Cardinality(activeTimers) <= 1
        /\ activeTimers \subseteq {intervalRef}

-----------------------------------------------------------------------------
(* Claims on the loading flag (Spec)                                       *)

\* C37 as stated: transcriptLoading is true in every state where at least
\* one transcript fetch of the component is pending and false when none is
\* pending, for every interleaving of fetch starts and completions.
C37_Original ==
    mounted => (transcriptLoading <=> fetches # {})

-----------------------------------------------------------------------------
(* Claims on the saved timestamps (SpecPlugin)                             *)

\* C38 as stated: once savePlayerTimestamp has recorded timestamp T for
\* video V in the in-memory settings, mediaData[V] stays T in memory until
\* a later save records another one, and it is what the persisted data
\* holds once the saveSettings and loadSettings calls have completed, for
\* every interleaving of them.
C38_Original ==
    /\ []((/\ segOutput.stage = "plugin"
           /\ segOutput.pendingTimes = <<>>
           /\ segOutput.pendingWrites = <<>>
           /\ segOutput.pendingLoads = <<>>)
             => segOutput.disk = segOutput.mediaData)
    /\ [][(segOutput.stage = "plugin" /\ ~TimeResolved)
             => segOutput'.mediaData = segOutput.mediaData]_vars

-----------------------------------------------------------------------------
(* SpecEase: the scroll animations between paragraphs 0 and 1 of an        *)
(* overflowing transcript, sampled by display frames 75 or 150 ms apart,   *)
(* so that a progress of every quarter occurs on both branches of the      *)
(* easing curve and a second animation starts while the first is running   *)

EaseDeltas == {75, 150}

EaseNext ==
    \/ FetchResolve(ScrollTranscripts)
    \/ ShowTimestamp
    \/ TimestampResolved(AnimateTimes)
    \/ Frame(EaseDeltas)

SpecEase == FollowInit /\ [][EaseNext]_vars

-----------------------------------------------------------------------------
(* Claims on the offsets an animation writes (SpecEase)                    *)

\* the offsets written in the last frame: eased progress in [0, 1], the
\* interpolation formula, and the range
WrittenInRange ==
    /\ RLe(R(0), scrollTop)
    /\ RLe(scrollTop, R(ScrollableHeight))
    /\ \A k \in 1..Len(lastFrame) :
          LET tick  == lastFrame[k]
              eased == easeInOutQuad(tick.progress)
          IN  /\ RLe(R(0), eased) /\ RLe(eased, R(1))
              /\ tick.value =
                    RAdd(tick.start, RMul(RSub(tick.target, tick.start), eased))
              /\ RLe(RMin(tick.start, tick.target), tick.value)
              /\ RLe(tick.value, RMax(tick.start, tick.target))
              /\ RLe(R(0), tick.value)
              /\ RLe(tick.value, R(ScrollableHeight))

\* from one frame to the next the eased progress of an animation does not
\* decrease and its offset does not move away from its target
EasedNonDecreasing ==
    \A k \in 1..Len(lastFrame) :
        \A j \in 1..Len(lastFrame') :
            (lastFrame'[j].id = lastFrame[k].id) =>
                /\ RLe(easeInOutQuad(lastFrame[k].progress),
                       easeInOutQuad(lastFrame'[j].progress))
                /\ RLe(RAbs(RSub(lastFrame'[j].target, lastFrame'[j].value)),
                       RAbs(RSub(lastFrame[k].target, lastFrame[k].value)))

\* C39: at every animation frame the offset written is
\* start + (target - start) * ease(min(elapsed / 300, 1)); the eased
\* progress is in [0, 1] and does not decrease from frame to frame, so
\* every written offset lies between the animation's start offset and its
\* clamped target, within [0, scrollableHeight], also when two animations
\* overlap in time.
C39_OffsetInRange ==
    /\ []WrittenInRange
    /\ [][EasedNonDecreasing]_vars

\* a frame in which two animations write: the first in the second half of
\* its easing curve, the second in the first half
C39_Witness ==
    /\ Len(lastFrame) = 2
    /\ RLt(Norm(1, 2), lastFrame[1].progress)
    /\ RLt(lastFrame[1].progress, R(1))
    /\ RLt(R(0), lastFrame[2].progress)
    /\ RLt(lastFrame[2].progress, Norm(1, 2))
    /\ lastFrame[1].value # lastFrame[2].value

====
